---- MODULE Spec2Model ----
(***************************************************************************)
(* A model of the education graph loaders: the EducationSystem library     *)
(* (neo4j_module.py), the REST layer (api_neo4j.py) and the import         *)
(* scripts (create_knowledge.py, add_data.py), over an abstract            *)
(* transactional graph store.                                              *)
(*                                                                         *)
(* Strings are tuples of one-character strings, so that strip(), lower()   *)
(* and the "in" test are computed and not assumed.  A node of the graph    *)
(* is an element of a sequence (its position is its identity), so two      *)
(* nodes with equal properties stay two nodes.                             *)
(***************************************************************************)
EXTENDS Integers, Sequences, FiniteSets, TLC

VARIABLES
    users,      \* the User nodes: sequence of [id, email]
    graph,      \* the Lesson, Question, Answer, Test and TestAnswer nodes and
                \* the relationships between them and the users
    knowledge,  \* the Knowledge nodes: sequence of [id, name, subject, grade]
    learned,    \* the LEARNED relationships: sequence of [from, to, progress, status,
                \* linkedAt, createdAt, updatedAt]
    result,     \* what the last call returned (with ghost fields input, writes)
    calls       \* the bulk user imports that run step by step, side by side:
                \* the isolation of the store and the state of each call

\* The hierarchy above Lesson (Grade, Subject, TypeBook, Chapter) is written
\* by the seeding script only and read by no operation of the model; it is
\* left out of the state.
userVars == <<users>>
otherVars == <<graph, knowledge, learned, calls>>
vars == <<users, graph, knowledge, learned, result, calls>>

-----------------------------------------------------------------------------
(* Bounds of the model                                                      *)

\* the store holds at most this many User nodes: a call is only made when
\* the store plus the call's input stays within it
MaxUsers == 2

-----------------------------------------------------------------------------
(* Python values                                                            *)

\* a key that is missing from a dict (dict.get gives None)
ABSENT == <<"<absent>">>
\* a value that is not a string (a JSON number)
NONSTR == <<"<number>">>

IsStr(v) == v # ABSENT /\ v # NONSTR

\* Python truthiness of a str-or-None value
Truthy(v) == v # ABSENT /\ v # <<>>

RECURSIVE LStrip(_)
LStrip(s) ==
    IF s # <<>> /\ Head(s) = " " THEN LStrip(Tail(s)) ELSE s

RECURSIVE RStrip(_)
RStrip(s) ==
    IF s # <<>> /\ s[Len(s)] = " " THEN RStrip(SubSeq(s, 1, Len(s) - 1)) ELSE s

\* str.strip()
Strip(s) == RStrip(LStrip(s))

LowerChar(c) ==
    CASE c = "A" -> "a"
      [] c = "B" -> "b"
      [] OTHER -> c

\* str.lower()
Lower(s) == [i \in 1..Len(s) |-> LowerChar(s[i])]

\* c in s
Contains(c, s) == \E i \in 1..Len(s) : s[i] = c

RECURSIVE Repeat(_, _)
Repeat(c, n) == IF n = 0 THEN <<>> ELSE <<c>> \o Repeat(c, n - 1)

\* the n-th identifier of the generator; callers never supply a "#..." string
Uuid(n) == <<"#">> \o Repeat("i", n)

\* str(uuid.uuid4()): an identifier that no node and no record of the call has
Uuid4(taken) ==
    Uuid(CHOOSE n \in 1..(Cardinality(taken) + 1) :
            /\ Uuid(n) \notin taken
            /\ \A m \in 1..(n - 1) : Uuid(m) \in taken)

SeqToSet(s) == {s[i] : i \in 1..Len(s)}

-----------------------------------------------------------------------------
(* The transactional store                                                  *)

\* a fault injected in the store during one call: none, the first read
\* query of the transaction fails, the chunk-th write of the transaction
\* fails, or tx.commit() fails
NoFault == [at |-> "none", chunk |-> 0]
ReadFault == [at |-> "read", chunk |-> 0]
CommitFault == [at |-> "commit", chunk |-> 0]
WriteFault(k) == [at |-> "write", chunk |-> k]
\* the call is interrupted by an exception that "except Exception" does not
\* catch (KeyboardInterrupt, SystemExit) when it is about to issue its k-th
\* write, or tx.commit() if it has fewer writes to issue
InterruptFault(k) == [at |-> "interrupt", chunk |-> k]

\* the faults that can strike a call that issues at most n writes
Faults(n) == {NoFault, ReadFault, CommitFault} \cup {WriteFault(k) : k \in 1..n}

\* tx.commit(): the transaction's view becomes the committed state
Commit(committed, view) == view

\* a rollback that leaves the writes of the transaction in the store, as
\* with one auto-commit transaction per chunk
RollbackKeepsWrites(committed, view) == view

\* tx.rollback(), and leaving "with session.begin_transaction()" without a
\* commit: the committed state stays
Rollback(committed, view) == committed

\* a transaction block that commits what was written when it is left
ExitTransactionCommits(committed, view) == view

\* an exception leaves the block "with session.begin_transaction() as tx":
\* the transaction is closed without a commit
ExitTransaction(committed, view) == Rollback(committed, view)

-----------------------------------------------------------------------------
(* Results                                                                  *)

\* one rejection reason: kind is the message template, index and value are
\* the index and the value printed in the message (index -1, value <<>>
\* when the message prints none); src is the position (0-based) of the input
\* record it is about (ghost).
\* A result carries the keys of the returned dict (keys) and their values;
\* ghost fields: input (the records of the call, kept when the call returns
\* its lists), writes (the write queries that succeeded), struck (a store
\* operation of the call failed), began (the call of a bulk import
\* entered "with session.begin_transaction() as tx"), chunks (the lists of
\* records of the write queries of the chunk loop, in the order they were
\* issued) and batch_size (the batch size the call was given);
\* batches_processed is the value of that key of 'performance' (0 when the
\* dict has none)
Reason(kind, index, value, src) ==
    [kind |-> kind, index |-> index, value |-> value, about |-> <<>>, src |-> src]

\* a reason that prints a second value (about), as in "Lesson <value> not
\* found for question <about>"
ReasonAbout(kind, value, about, src) ==
    [kind |-> kind, index |-> 0 - 1, value |-> value, about |-> about, src |-> src]

NoResult ==
    [op |-> "none", outcome |-> "none", keys |-> {}, created |-> <<>>,
     errors |-> <<>>, total_processed |-> 0, total_created |-> 0,
     total_errors |-> 0, success |-> FALSE, raised |-> FALSE,
     input |-> <<>>, writes |-> 0, struck |-> FALSE, began |-> FALSE,
     chunks |-> <<>>, batch_size |-> 0, batches_processed |-> 0]

-----------------------------------------------------------------------------
(* EducationSystem.bulk_create_users                                        *)

EmptyAcc(store_ids) ==
    [valid |-> <<>>, errors |-> <<>>, used_ids |-> {}, taken |-> store_ids,
     raised |-> FALSE]

\* a validation loop without the used_ids test
DuplicateInBatchNever(user_id, used_ids) == FALSE

\* if user_id in used_ids
DuplicateInBatch(user_id, used_ids) == user_id \in used_ids

\* the validation loop; i is the 1-based position, the message prints i - 1
RECURSIVE ValidateUsers(_, _, _)
ValidateUsers(users_data, i, acc) ==
    IF i > Len(users_data) \/ acc.raised THEN acc
    ELSE
      LET user == users_data[i] IN
      IF user.name = ABSENT \/ user.email = ABSENT THEN
          ValidateUsers(users_data, i + 1,
              [acc EXCEPT !.errors = Append(@, Reason("Missing name or email", i - 1, <<>>, i - 1))])
      ELSE IF ~IsStr(user.email) THEN
          \* '@' not in 5 raises TypeError
          [acc EXCEPT !.raised = TRUE]
      ELSE IF ~Contains("@", user.email) THEN
          ValidateUsers(users_data, i + 1,
              [acc EXCEPT !.errors = Append(@, Reason("Invalid email format", i - 1, <<>>, i - 1))])
      ELSE IF Truthy(user.id) THEN
          LET user_id == Strip(user.id) IN
          IF user_id = <<>> THEN
              ValidateUsers(users_data, i + 1,
                  [acc EXCEPT !.errors = Append(@, Reason("Empty ID provided", i - 1, <<>>, i - 1))])
          ELSE IF DuplicateInBatch(user_id, acc.used_ids) THEN
              ValidateUsers(users_data, i + 1,
                  [acc EXCEPT !.errors = Append(@, Reason("Duplicate ID in batch", i - 1, user_id, i - 1))])
          ELSE
              ValidateUsers(users_data, i + 1,
                  [acc EXCEPT !.used_ids = @ \cup {user_id},
                              !.valid = Append(@, [id |-> user_id,
                                                   email |-> Lower(Strip(user.email)),
                                                   src |-> i - 1])])
      ELSE
          LET user_id == Uuid4(acc.taken) IN
          ValidateUsers(users_data, i + 1,
              [acc EXCEPT !.taken = @ \cup {user_id},
                          !.valid = Append(@, [id |-> user_id,
                                               email |-> Lower(Strip(user.email)),
                                               src |-> i - 1])])

\* an email lookup that finds nothing
ExistingEmailsNone(view, email_list) == {}

\* MATCH (u:User) WHERE u.email IN $email_list RETURN u.email
ExistingEmails(view, email_list) ==
    {view[n].email : n \in 1..Len(view)} \cap SeqToSet(email_list)

\* MATCH (u:User) WHERE u.id IN $id_list RETURN u.id
ExistingIds(view, id_list) ==
    {view[n].id : n \in 1..Len(view)} \cap SeqToSet(id_list)

\* a filter loop that lets through only the first user without a conflict
RECURSIVE FilterUsersFirstOnly(_, _, _, _)
FilterUsersFirstOnly(valid_users, existing_emails, existing_ids, i) ==
    IF i > Len(valid_users) THEN [new_users |-> <<>>, errors |-> <<>>]
    ELSE
      LET user == valid_users[i]
          rest == FilterUsersFirstOnly(valid_users, existing_emails, existing_ids, i + 1)
          e1 == IF user.email \in existing_emails
                THEN <<Reason("Email already exists", 0 - 1, user.email, user.src)>>
                ELSE <<>>
          e2 == IF user.id \in existing_ids
                THEN <<Reason("ID already exists", 0 - 1, user.id, user.src)>>
                ELSE <<>>
          skip_user == user.email \in existing_emails \/ user.id \in existing_ids
      IN [new_users |-> IF skip_user THEN rest.new_users ELSE <<user>>,
          errors |-> e1 \o e2 \o rest.errors]

\* the filter loop: a user whose email or id exists is skipped, with one
\* reason per hit
RECURSIVE FilterUsers(_, _, _, _)
FilterUsers(valid_users, existing_emails, existing_ids, i) ==
    IF i > Len(valid_users) THEN [new_users |-> <<>>, errors |-> <<>>]
    ELSE
      LET user == valid_users[i]
          rest == FilterUsers(valid_users, existing_emails, existing_ids, i + 1)
          e1 == IF user.email \in existing_emails
                THEN <<Reason("Email already exists", 0 - 1, user.email, user.src)>>
                ELSE <<>>
          e2 == IF user.id \in existing_ids
                THEN <<Reason("ID already exists", 0 - 1, user.id, user.src)>>
                ELSE <<>>
          skip_user == user.email \in existing_emails \/ user.id \in existing_ids
      IN [new_users |-> (IF skip_user THEN <<>> ELSE <<user>>) \o rest.new_users,
          errors |-> e1 \o e2 \o rest.errors]

\* UNWIND $users as user CREATE (u:User {...}) RETURN u
CreateUserNodes(view, batch) ==
    view \o [n \in 1..Len(batch) |-> [id |-> batch[n].id, email |-> batch[n].email]]

\* a slice that keeps the first record of the chunk only
SliceFirst(a, i, batch_size) == SubSeq(a, i + 1, i + 1)

\* a[i:i + batch_size] with i 0-based
Slice(a, i, batch_size) ==
    SubSeq(a, i + 1, IF i + batch_size < Len(a) THEN i + batch_size ELSE Len(a))

\* for i in range(0, len(new_users), batch_size): one write per chunk; the
\* k-th write fails when fault = k
RECURSIVE InsertUserChunks(_, _, _, _, _, _)
InsertUserChunks(new_users, batch_size, i, k, fault, st) ==
    IF i >= Len(new_users) THEN st
    ELSE IF fault = WriteFault(k) \/ fault = InterruptFault(k)
         THEN [st EXCEPT !.failed = TRUE]
    ELSE
      LET batch == Slice(new_users, i, batch_size) IN
      InsertUserChunks(new_users, batch_size, i + batch_size, k + 1, fault,
          [st EXCEPT !.view = CreateUserNodes(@, batch),
                     !.created = @ \o batch,
                     !.chunks = Append(@, batch),
                     !.writes = @ + 1])

\* an error handler that reports the chunks written before the failure
TransactionFailedPartial(op, writes) ==
    [NoResult EXCEPT !.op = op, !.outcome = "imported",
                     !.keys = {"message", "created", "total_processed",
                               "total_created", "total_errors", "errors", "success"},
                     !.total_created = writes,
                     !.success = writes > 0,
                     !.writes = writes]

\* {'error': 'Transaction failed: ...', 'success': False}; writes is the
\* number of write queries that had succeeded in the transaction (ghost)
TransactionFailed(op, writes) ==
    [NoResult EXCEPT !.op = op, !.outcome = "transaction failed",
                     !.keys = {"error", "success"},
                     !.writes = writes, !.began = TRUE]

\* {'error': 'No valid users to import', 'errors': errors, 'success': False},
\* returned from inside the "with" block of the transaction
NoValidRecords(op, users_data, errors) ==
    [NoResult EXCEPT !.op = op, !.outcome = "no valid records",
                     !.keys = {"error", "errors", "success"},
                     !.errors = errors, !.input = users_data, !.began = TRUE]

\* a returned dict whose success flag is set whenever the call commits
ImportedAlwaysSuccess(op, users_data, created, errors, writes) ==
    [NoResult EXCEPT !.op = op, !.outcome = "imported",
                     !.keys = {"message", "created", "total_processed",
                               "total_created", "total_errors", "errors", "success"},
                     !.created = created, !.errors = errors,
                     !.total_processed = Len(users_data),
                     !.total_created = Len(created),
                     !.total_errors = Len(errors),
                     !.success = TRUE,
                     !.input = users_data, !.writes = writes, !.began = TRUE]

\* the call returns nothing: the exception goes up to the caller
Interrupted(op, writes) ==
    [NoResult EXCEPT !.op = op, !.outcome = "interrupted", !.raised = TRUE,
                     !.writes = writes, !.began = TRUE]

\* the dict returned after tx.commit()
Imported(op, users_data, created, errors, writes) ==
    [NoResult EXCEPT !.op = op, !.outcome = "imported",
                     !.keys = {"message", "created", "total_processed",
                               "total_created", "total_errors", "errors", "success"},
                     !.created = created, !.errors = errors,
                     !.total_processed = Len(users_data),
                     !.total_created = Len(created),
                     !.total_errors = Len(errors),
                     !.success = Len(created) > 0,
                     !.input = users_data, !.writes = writes, !.began = TRUE]

\* the whole call: [store, result]
bulk_create_users(store, users_data, batch_size, fault) ==
    LET v == ValidateUsers(users_data, 1, EmptyAcc({store[n].id : n \in 1..Len(store)})) IN
    IF v.raised THEN
        [store |-> Rollback(store, store),
         result |-> TransactionFailed("bulk_create_users", 0)]
    ELSE IF v.valid = <<>> THEN
        [store |-> Rollback(store, store),
         result |-> NoValidRecords("bulk_create_users", users_data, v.errors)]
    ELSE IF fault = ReadFault THEN
        [store |-> Rollback(store, store),
         result |-> [TransactionFailed("bulk_create_users", 0) EXCEPT !.struck = TRUE]]
    ELSE
      LET email_list == [n \in 1..Len(v.valid) |-> v.valid[n].email]
          id_list == [n \in 1..Len(v.valid) |-> v.valid[n].id]
          f == FilterUsers(v.valid, ExistingEmails(store, email_list),
                           ExistingIds(store, id_list), 1)
          errors == v.errors \o f.errors
          w == InsertUserChunks(f.new_users, batch_size, 0, 1, fault,
                   [view |-> store, created |-> <<>>, writes |-> 0, failed |-> FALSE,
                    chunks |-> <<>>])
      IN
      IF fault.at = "interrupt" THEN
          [store |-> ExitTransaction(store, w.view),
           result |-> Interrupted("bulk_create_users", w.writes)]
      ELSE IF w.failed \/ fault = CommitFault THEN
          [store |-> Rollback(store, w.view),
           result |-> [TransactionFailed("bulk_create_users", w.writes) EXCEPT !.struck = TRUE]]
      ELSE
          [store |-> Commit(store, w.view),
           result |-> [Imported("bulk_create_users", users_data, w.created, errors,
                                w.writes)
                          EXCEPT !.chunks = w.chunks, !.batch_size = batch_size]]

-----------------------------------------------------------------------------
(* POST /api/v1/users/bulk: import_users_optimized                          *)

\* the REST validation loop: every surviving record gets a generated id, an
\* "id" of the input is not read
RECURSIVE ValidateUsersApi(_, _, _)
ValidateUsersApi(users_data, i, acc) ==
    IF i > Len(users_data) \/ acc.raised THEN acc
    ELSE
      LET user == users_data[i] IN
      IF user.name = ABSENT \/ user.email = ABSENT THEN
          ValidateUsersApi(users_data, i + 1,
              [acc EXCEPT !.errors = Append(@, Reason("Missing name or email", i - 1, <<>>, i - 1))])
      ELSE IF ~IsStr(user.email) THEN
          [acc EXCEPT !.raised = TRUE]
      ELSE IF ~Contains("@", user.email) THEN
          ValidateUsersApi(users_data, i + 1,
              [acc EXCEPT !.errors = Append(@, Reason("Invalid email format", i - 1, <<>>, i - 1))])
      ELSE
          LET user_id == Uuid4(acc.taken) IN
          ValidateUsersApi(users_data, i + 1,
              [acc EXCEPT !.taken = @ \cup {user_id},
                          !.valid = Append(@, [id |-> user_id,
                                               email |-> Lower(Strip(user.email)),
                                               src |-> i - 1])])

\* the REST filter loop: only the email is looked up
RECURSIVE FilterUsersApi(_, _, _)
FilterUsersApi(valid_users, existing_emails, i) ==
    IF i > Len(valid_users) THEN [new_users |-> <<>>, errors |-> <<>>]
    ELSE
      LET user == valid_users[i]
          rest == FilterUsersApi(valid_users, existing_emails, i + 1)
      IN IF user.email \in existing_emails
         THEN [new_users |-> rest.new_users,
               errors |-> <<Reason("Email already exists", 0 - 1, user.email, user.src)>>
                          \o rest.errors]
         ELSE [new_users |-> <<user>> \o rest.new_users, errors |-> rest.errors]

import_users_optimized(store, users_data, batch_size, fault) ==
    LET v == ValidateUsersApi(users_data, 1, EmptyAcc({store[n].id : n \in 1..Len(store)})) IN
    IF v.raised THEN
        [store |-> Rollback(store, store),
         result |-> TransactionFailed("import_users_optimized", 0)]
    ELSE IF v.valid = <<>> THEN
        [store |-> Rollback(store, store),
         result |-> NoValidRecords("import_users_optimized", users_data, v.errors)]
    ELSE IF fault = ReadFault THEN
        [store |-> Rollback(store, store),
         result |-> [TransactionFailed("import_users_optimized", 0) EXCEPT !.struck = TRUE]]
    ELSE
      LET email_list == [n \in 1..Len(v.valid) |-> v.valid[n].email]
          f == FilterUsersApi(v.valid, ExistingEmails(store, email_list), 1)
          errors == v.errors \o f.errors
          w == InsertUserChunks(f.new_users, batch_size, 0, 1, fault,
                   [view |-> store, created |-> <<>>, writes |-> 0, failed |-> FALSE,
                    chunks |-> <<>>])
      IN
      IF w.failed \/ fault = CommitFault THEN
          [store |-> Rollback(store, w.view),
           result |-> [TransactionFailed("import_users_optimized", w.writes) EXCEPT !.struck = TRUE]]
      ELSE
          [store |-> Commit(store, w.view),
           result |-> [Imported("import_users_optimized", users_data, w.created, errors,
                                w.writes)
                          EXCEPT !.chunks = w.chunks, !.batch_size = batch_size]]

-----------------------------------------------------------------------------
(* EducationSystem.create_user                                              *)

\* every query runs in its own auto-commit transaction
create_user(store, email, user_id) ==
    IF \E n \in 1..Len(store) : store[n].email = Lower(Strip(email)) THEN
        [store |-> store,
         result |-> [NoResult EXCEPT !.op = "create_user", !.outcome = "Email already exists",
                                     !.keys = {"error", "success"}]]
    ELSE IF Truthy(user_id) /\ \E n \in 1..Len(store) : store[n].id = user_id THEN
        [store |-> store,
         result |-> [NoResult EXCEPT !.op = "create_user", !.outcome = "User ID already exists",
                                     !.keys = {"error", "success"}]]
    ELSE
      LET user_data == [id |-> IF Truthy(user_id) THEN user_id
                               ELSE Uuid4({store[n].id : n \in 1..Len(store)}),
                        email |-> Lower(Strip(email)),
                        src |-> 0]
      IN [store |-> Append(store, [id |-> user_data.id, email |-> user_data.email]),
          result |-> [NoResult EXCEPT !.op = "create_user", !.outcome = "created",
                                      !.keys = {"message", "user", "success"},
                                      !.created = <<user_data>>,
                                      !.total_created = 1,
                                      !.success = TRUE,
                                      !.input = <<[name |-> <<"n">>, email |-> email, id |-> user_id]>>,
                                      !.writes = 1]]

-----------------------------------------------------------------------------
(* The content graph                                                        *)

\* graph.lessons, .test_answers: sequences of [id]; graph.tests: sequence of
\* [id, scored], scored when the score fields are set; graph.questions
\* and .answers: sequences of [id, by], by the operation that created the
\* node (ghost); graph.rels: sequence of [type, from, to], from and to the
\* positions of the two nodes in the sequences of their labels
EmptyGraph ==
    [lessons |-> <<>>, questions |-> <<>>, answers |-> <<>>, tests |-> <<>>,
     test_answers |-> <<>>, rels |-> <<>>]

IdsOf(nodes) == {nodes[n].id : n \in 1..Len(nodes)}

\* every id of the store
StoreIds(us, g, kn) ==
    IdsOf(us) \cup IdsOf(g.lessons) \cup IdsOf(g.questions) \cup IdsOf(g.answers)
        \cup IdsOf(g.tests) \cup IdsOf(g.test_answers) \cup IdsOf(kn)

\* MATCH (n:Label {id: $id}): the nodes of the label with that id
Match(nodes, id) == {n \in 1..Len(nodes) : nodes[n].id = id}

RECURSIVE Ascending(_)
Ascending(S) ==
    IF S = {} THEN <<>>
    ELSE LET m == CHOOSE x \in S : \A y \in S : x <= y
         IN <<m>> \o Ascending(S \ {m})

\* UNWIND $rows as row MATCH (a {id: row.from_id}) MATCH (b {id: row.to_id})
\* CREATE (a)-[:type]->(b): one relationship per row and per pair of matches
RECURSIVE MatchCreate(_, _, _, _)
MatchCreate(type, from_nodes, to_nodes, rows) ==
    IF rows = <<>> THEN <<>>
    ELSE
      LET F == Ascending(Match(from_nodes, Head(rows).from_id))
          T == Ascending(Match(to_nodes, Head(rows).to_id))
      IN [k \in 1..(Len(F) * Len(T)) |->
              [type |-> type,
               from |-> F[((k - 1) \div Len(T)) + 1],
               to |-> T[((k - 1) % Len(T)) + 1]]]
         \o MatchCreate(type, from_nodes, to_nodes, Tail(rows))

\* the relationships of a type that leave (arrive at) a node
RelsFrom(g, type, n) == {e \in 1..Len(g.rels) : g.rels[e].type = type /\ g.rels[e].from = n}
RelsTo(g, type, n) == {e \in 1..Len(g.rels) : g.rels[e].type = type /\ g.rels[e].to = n}

\* the fields of the list that the record lacks: [f for f in fields if f not in rec]
RECURSIVE MissingFields(_, _)
MissingFields(rec, fields) ==
    IF fields = <<>> THEN <<>>
    ELSE (IF rec[Head(fields)] = ABSENT THEN <<Head(fields)>> ELSE <<>>)
         \o MissingFields(rec, Tail(fields))

-----------------------------------------------------------------------------
(* add_data.py: the seeding import                                          *)

\* the data file, cut to one item: one lesson with one question
SeedItems == <<[lesson |-> <<"l">>, title |-> <<"t">>]>>

\* the students of the script, cut to the first
SeedUsers == <<[email |-> <<"s", "@", "x">>]>>

\* random.randint(int(n * 0.6), int(n * 0.8)): how many of the n questions a
\* seeded user answers
SeedAnswerCounts(n) == ((n * 6) \div 10)..((n * 8) \div 10)

\* run_import, run to its end: the database is cleared, then users, lessons,
\* questions (each with its lesson) and answers are created with fresh ids;
\* answered is the number of questions every user answers
run_import(answered) ==
    LET user_ids == [n \in 1..Len(SeedUsers) |-> Uuid(n)]
        lesson_ids == [n \in 1..Len(SeedItems) |-> Uuid(Len(SeedUsers) + n)]
        question_ids == [n \in 1..Len(SeedItems) |->
                            Uuid(Len(SeedUsers) + Len(SeedItems) + n)]
        nq == Len(SeedItems)
        \* the answer of user u to its a-th question
        answer_rows == [k \in 1..(Len(SeedUsers) * answered) |->
                          [user |-> ((k - 1) \div answered) + 1,
                           question |-> ((k - 1) % answered) + 1,
                           id |-> Uuid(Len(SeedUsers) + 2 * nq + k)]]
    IN [users |-> [n \in 1..Len(SeedUsers) |->
                      [id |-> user_ids[n], email |-> SeedUsers[n].email]],
        graph |-> [EmptyGraph EXCEPT
            !.lessons = [n \in 1..nq |-> [id |-> lesson_ids[n]]],
            !.questions = [n \in 1..nq |-> [id |-> question_ids[n], by |-> "create_questions"]],
            !.answers = [k \in 1..Len(answer_rows) |->
                            [id |-> answer_rows[k].id, by |-> "create_answers"]],
            !.rels = [n \in 1..nq |-> [type |-> "BELONGS_TO_LESSON", from |-> n, to |-> n]]
                     \o [k \in 1..Len(answer_rows) |->
                            [type |-> "ANSWERED", from |-> answer_rows[k].user, to |-> k]]
                     \o [k \in 1..Len(answer_rows) |->
                            [type |-> "ANSWERS_QUESTION", from |-> k,
                             to |-> answer_rows[k].question]]]]

-----------------------------------------------------------------------------
(* POST /api/v1/questions/bulk: import_questions_optimized                  *)

RequiredQuestionFields ==
    <<"lesson_id", "title", "content", "correct_answer", "difficulty", "page">>

\* the validation loop: a record that lacks a required field is rejected,
\* every other record gets a generated id
RECURSIVE ValidateQuestions(_, _, _)
ValidateQuestions(questions_data, i, acc) ==
    IF i > Len(questions_data) THEN acc
    ELSE
      LET question == questions_data[i]
          missing_fields == MissingFields(question, RequiredQuestionFields)
      IN
      IF missing_fields # <<>> THEN
          ValidateQuestions(questions_data, i + 1,
              [acc EXCEPT !.errors = Append(@, Reason("Missing fields", i - 1, missing_fields, i - 1))])
      ELSE
          LET question_id == Uuid4(acc.taken) IN
          ValidateQuestions(questions_data, i + 1,
              [acc EXCEPT !.taken = @ \cup {question_id},
                          !.valid = Append(@, [id |-> question_id,
                                               lesson_id |-> question.lesson_id,
                                               title |-> question.title,
                                               src |-> i - 1])])

\* MATCH (l:Lesson) WHERE l.id IN $lesson_ids RETURN l.id as id
ExistingLessons(view, lesson_ids) == IdsOf(view.lessons) \cap lesson_ids

\* a filter that lets every question through
LessonMissingNever(lesson_id, existing_lessons) == FALSE

\* if question['lesson_id'] not in existing_lessons
LessonMissing(lesson_id, existing_lessons) == lesson_id \notin existing_lessons

\* the filter loop
RECURSIVE FilterQuestions(_, _, _)
FilterQuestions(valid_questions, existing_lessons, i) ==
    IF i > Len(valid_questions) THEN [final |-> <<>>, errors |-> <<>>]
    ELSE
      LET question == valid_questions[i]
          rest == FilterQuestions(valid_questions, existing_lessons, i + 1)
      IN IF LessonMissing(question.lesson_id, existing_lessons)
         THEN [final |-> rest.final,
               errors |-> <<ReasonAbout("Lesson not found for question",
                                        question.lesson_id, question.title, question.src)>>
                          \o rest.errors]
         ELSE [final |-> <<question>> \o rest.final, errors |-> rest.errors]

\* UNWIND $questions as q CREATE (question:Question {...})
CreateQuestionNodes(view, batch) ==
    [view EXCEPT !.questions = @ \o [n \in 1..Len(batch) |->
                    [id |-> batch[n].id, by |-> "import_questions_optimized"]]]

\* a relationship query that creates nothing
CreateBelongsToLessonNone(view, batch) == view

\* UNWIND $relationships as rel MATCH (l:Lesson {id: rel.lesson_id})
\* MATCH (q:Question {id: rel.question_id}) CREATE (q)-[:BELONGS_TO_LESSON]->(l)
CreateBelongsToLesson(view, batch) ==
    [view EXCEPT !.rels = @ \o MatchCreate("BELONGS_TO_LESSON", view.questions, view.lessons,
                    [n \in 1..Len(batch) |->
                        [from_id |-> batch[n].id, to_id |-> batch[n].lesson_id]])]

\* the chunk loop: two write queries per chunk (the nodes, then their
\* relationships); k is the number of the next write query
RECURSIVE InsertQuestionChunks(_, _, _, _, _, _)
InsertQuestionChunks(final_questions, batch_size, i, k, fault, st) ==
    IF i >= Len(final_questions) THEN st
    ELSE IF fault = WriteFault(k) THEN [st EXCEPT !.failed = TRUE]
    ELSE
      LET batch == Slice(final_questions, i, batch_size)
          nodes == CreateQuestionNodes(st.view, batch)
      IN
      IF fault = WriteFault(k + 1)
      THEN [st EXCEPT !.view = nodes, !.writes = @ + 1, !.failed = TRUE]
      ELSE InsertQuestionChunks(final_questions, batch_size, i + batch_size, k + 2, fault,
               [st EXCEPT !.view = CreateBelongsToLesson(nodes, batch),
                          !.created = @ \o batch,
                          !.chunks = Append(@, batch),
                          !.writes = @ + 2])

\* 'batches_processed': (len(final_questions) // batch_size) + 1
BatchesProcessed(n, batch_size) == (n \div batch_size) + 1

\* the keys of the dict a bulk import of nodes with relationships returns
ImportedWithRelationships(op, list_key, data, created, errors, writes) ==
    [NoResult EXCEPT !.op = op, !.outcome = "imported",
                     !.keys = {"message", list_key, "total_processed", "total_created",
                               "total_errors", "errors", "performance", "success"},
                     !.created = created, !.errors = errors,
                     !.total_processed = Len(data),
                     !.total_created = Len(created),
                     !.total_errors = Len(errors),
                     !.success = Len(created) > 0,
                     !.input = data, !.writes = writes, !.began = TRUE]

\* the whole call: [store, result]; store is the graph, ids the ids in use
import_questions_optimized(store, ids, questions_data, batch_size, fault) ==
    LET op == "import_questions_optimized"
        v == ValidateQuestions(questions_data, 1,
                 [valid |-> <<>>, errors |-> <<>>, taken |-> ids])
    IN
    IF v.valid = <<>> THEN
        [store |-> Rollback(store, store),
         result |-> NoValidRecords(op, questions_data, v.errors)]
    ELSE IF fault = ReadFault THEN
        [store |-> Rollback(store, store),
         result |-> [TransactionFailed(op, 0) EXCEPT !.struck = TRUE]]
    ELSE
      LET lesson_ids == {v.valid[n].lesson_id : n \in 1..Len(v.valid)}
          f == FilterQuestions(v.valid, ExistingLessons(store, lesson_ids), 1)
          errors == v.errors \o f.errors
          w == InsertQuestionChunks(f.final, batch_size, 0, 1, fault,
                   [view |-> store, created |-> <<>>, writes |-> 0, failed |-> FALSE,
                    chunks |-> <<>>])
      IN
      IF w.failed \/ fault = CommitFault THEN
          [store |-> Rollback(store, w.view),
           result |-> [TransactionFailed(op, w.writes) EXCEPT !.struck = TRUE]]
      ELSE
          [store |-> Commit(store, w.view),
           result |-> [ImportedWithRelationships(op, "created_questions", questions_data,
                                                 w.created, errors, w.writes)
                          EXCEPT !.chunks = w.chunks, !.batch_size = batch_size,
                                 !.batches_processed =
                                     BatchesProcessed(Len(f.final), batch_size)]]

-----------------------------------------------------------------------------
(* POST /api/v1/answers/bulk: import_answers_optimized                      *)

RequiredAnswerFields == <<"user_id", "question_id", "student_answer", "is_correct">>

RECURSIVE ValidateAnswers(_, _, _)
ValidateAnswers(answers_data, i, acc) ==
    IF i > Len(answers_data) THEN acc
    ELSE
      LET answer == answers_data[i]
          missing_fields == MissingFields(answer, RequiredAnswerFields)
      IN
      IF missing_fields # <<>> THEN
          ValidateAnswers(answers_data, i + 1,
              [acc EXCEPT !.errors = Append(@, Reason("Missing fields", i - 1, missing_fields, i - 1))])
      ELSE
          LET answer_id == Uuid4(acc.taken) IN
          ValidateAnswers(answers_data, i + 1,
              [acc EXCEPT !.taken = @ \cup {answer_id},
                          !.valid = Append(@, [id |-> answer_id,
                                               user_id |-> answer.user_id,
                                               question_id |-> answer.question_id,
                                               src |-> i - 1])])

\* MATCH (u:User) WHERE u.id IN $user_ids RETURN u.id as id
ExistingUsers(us, user_ids) == IdsOf(us) \cap user_ids

\* MATCH (q:Question) WHERE q.id IN $question_ids RETURN q.id as id
ExistingQuestions(view, question_ids) == IdsOf(view.questions) \cap question_ids

\* the filter loop: the user is looked at first, a record gets one reason
RECURSIVE FilterAnswers(_, _, _, _)
FilterAnswers(valid_answers, existing_users, existing_questions, i) ==
    IF i > Len(valid_answers) THEN [final |-> <<>>, errors |-> <<>>]
    ELSE
      LET answer == valid_answers[i]
          rest == FilterAnswers(valid_answers, existing_users, existing_questions, i + 1)
      IN IF answer.user_id \notin existing_users
         THEN [final |-> rest.final,
               errors |-> <<Reason("User not found", 0 - 1, answer.user_id, answer.src)>>
                          \o rest.errors]
         ELSE IF answer.question_id \notin existing_questions
         THEN [final |-> rest.final,
               errors |-> <<Reason("Question not found", 0 - 1, answer.question_id, answer.src)>>
                          \o rest.errors]
         ELSE [final |-> <<answer>> \o rest.final, errors |-> rest.errors]

\* UNWIND $answers as a CREATE (answer:Answer {...})
CreateAnswerNodes(view, batch) ==
    [view EXCEPT !.answers = @ \o [n \in 1..Len(batch) |->
                    [id |-> batch[n].id, by |-> "import_answers_optimized"]]]

\* MATCH (u:User {id: rel.user_id}) MATCH (a:Answer {id: rel.answer_id})
\* CREATE (u)-[:ANSWERED]->(a)
CreateAnswered(us, view, batch) ==
    [view EXCEPT !.rels = @ \o MatchCreate("ANSWERED", us, view.answers,
                    [n \in 1..Len(batch) |->
                        [from_id |-> batch[n].user_id, to_id |-> batch[n].id]])]

\* a query that leaves the answers without their question
CreateAnswersQuestionNone(view, batch) == view

\* MATCH (q:Question {id: rel.question_id}) MATCH (a:Answer {id: rel.answer_id})
\* CREATE (a)-[:ANSWERS_QUESTION]->(q)
CreateAnswersQuestion(view, batch) ==
    [view EXCEPT !.rels = @ \o MatchCreate("ANSWERS_QUESTION", view.answers, view.questions,
                    [n \in 1..Len(batch) |->
                        [from_id |-> batch[n].id, to_id |-> batch[n].question_id]])]

\* the chunk loop: three write queries per chunk
RECURSIVE InsertAnswerChunks(_, _, _, _, _, _, _)
InsertAnswerChunks(us, final_answers, batch_size, i, k, fault, st) ==
    IF i >= Len(final_answers) THEN st
    ELSE IF fault = WriteFault(k) THEN [st EXCEPT !.failed = TRUE]
    ELSE
      LET batch == Slice(final_answers, i, batch_size)
          nodes == CreateAnswerNodes(st.view, batch)
          answered == CreateAnswered(us, nodes, batch)
      IN
      IF fault = WriteFault(k + 1)
      THEN [st EXCEPT !.view = nodes, !.writes = @ + 1, !.failed = TRUE]
      ELSE IF fault = WriteFault(k + 2)
      THEN [st EXCEPT !.view = answered, !.writes = @ + 2, !.failed = TRUE]
      ELSE InsertAnswerChunks(us, final_answers, batch_size, i + batch_size, k + 3, fault,
               [st EXCEPT !.view = CreateAnswersQuestion(answered, batch),
                          !.created = @ \o batch,
                          !.chunks = Append(@, batch),
                          !.writes = @ + 3])

\* the whole call: [store, result]; us are the User nodes, store the graph
import_answers_optimized(us, store, ids, answers_data, batch_size, fault) ==
    LET op == "import_answers_optimized"
        v == ValidateAnswers(answers_data, 1,
                 [valid |-> <<>>, errors |-> <<>>, taken |-> ids])
    IN
    IF v.valid = <<>> THEN
        [store |-> Rollback(store, store),
         result |-> NoValidRecords(op, answers_data, v.errors)]
    ELSE IF fault = ReadFault THEN
        [store |-> Rollback(store, store),
         result |-> [TransactionFailed(op, 0) EXCEPT !.struck = TRUE]]
    ELSE
      LET user_ids == {v.valid[n].user_id : n \in 1..Len(v.valid)}
          question_ids == {v.valid[n].question_id : n \in 1..Len(v.valid)}
          f == FilterAnswers(v.valid, ExistingUsers(us, user_ids),
                             ExistingQuestions(store, question_ids), 1)
          errors == v.errors \o f.errors
          w == InsertAnswerChunks(us, f.final, batch_size, 0, 1, fault,
                   [view |-> store, created |-> <<>>, writes |-> 0, failed |-> FALSE,
                    chunks |-> <<>>])
      IN
      IF w.failed \/ fault = CommitFault THEN
          [store |-> Rollback(store, w.view),
           result |-> [TransactionFailed(op, w.writes) EXCEPT !.struck = TRUE]]
      ELSE
          [store |-> Commit(store, w.view),
           result |-> [ImportedWithRelationships(op, "created_answers", answers_data,
                                                 w.created, errors, w.writes)
                          EXCEPT !.chunks = w.chunks, !.batch_size = batch_size,
                                 !.batches_processed =
                                     BatchesProcessed(Len(f.final), batch_size)]]

-----------------------------------------------------------------------------
(* EducationSystem.create_complete_test                                     *)

RequiredTestQuestionFields == <<"question", "answer", "student_answer", "is_correct">>

\* a call that returns {'error': ..., 'success': False} before it writes
Refused(op, outcome) ==
    [NoResult EXCEPT !.op = op, !.outcome = outcome, !.keys = {"error", "success"}]

\* CREATE (t:Test {...}), then MATCH (u:User {id}) MATCH (t:Test {id})
\* CREATE (u)-[:TOOK]->(t)
CreateTest(view, test_id) ==
    [view EXCEPT !.tests = Append(@, [id |-> test_id, scored |-> FALSE])]

\* MATCH (t:Test {id: $test_id}) SET t.total_score = ..., t.updatedAt = ...
SetScores(view, test_id) ==
    [view EXCEPT !.tests = [n \in 1..Len(@) |->
                               IF n \in Match(@, test_id)
                               THEN [@[n] EXCEPT !.scored = TRUE] ELSE @[n]]]

CreateTook(us, view, user_id, test_id) ==
    [view EXCEPT !.rels = @ \o MatchCreate("TOOK", us, view.tests,
                    <<[from_id |-> user_id, to_id |-> test_id]>>)]

\* CREATE (q:Question {...}): the question of a test carries no lesson
CreateTestQuestion(view, question_id) ==
    [view EXCEPT !.questions = Append(@, [id |-> question_id, by |-> "create_complete_test"])]

\* MATCH (t:Test {id}) MATCH (q:Question {id}) CREATE (t)-[:CONTAINS_QUESTION]->(q)
CreateContainsQuestion(view, test_id, question_id) ==
    [view EXCEPT !.rels = @ \o MatchCreate("CONTAINS_QUESTION", view.tests, view.questions,
                    <<[from_id |-> test_id, to_id |-> question_id]>>)]

\* CREATE (ta:TestAnswer {...})
CreateTestAnswer(view, answer_id) ==
    [view EXCEPT !.test_answers = Append(@, [id |-> answer_id])]

\* MATCH (q:Question {id}) MATCH (ta:TestAnswer {id}) CREATE (q)-[:HAS_ANSWER]->(ta)
CreateHasAnswer(view, question_id, answer_id) ==
    [view EXCEPT !.rels = @ \o MatchCreate("HAS_ANSWER", view.questions, view.test_answers,
                    <<[from_id |-> question_id, to_id |-> answer_id]>>)]

\* the write queries of the i-th question, in order; each gives the view
\* after it
TestQuestionWrites(view, test_id, question_id, answer_id) ==
    LET v1 == CreateTestQuestion(view, question_id)
        v2 == CreateContainsQuestion(v1, test_id, question_id)
        v3 == CreateTestAnswer(v2, answer_id)
        v4 == CreateHasAnswer(v3, question_id, answer_id)
    IN <<v1, v2, v3, v4>>

\* for i, question_data in enumerate(questions): four write queries each; k
\* is the number of the next write query
RECURSIVE InsertTestQuestions(_, _, _, _, _, _)
InsertTestQuestions(questions, test_id, i, k, fault, st) ==
    IF i > Len(questions) THEN st
    ELSE
      LET question_id == Uuid4(st.taken)
          answer_id == Uuid4(st.taken \cup {question_id})
          vs == TestQuestionWrites(st.view, test_id, question_id, answer_id)
      IN
      IF fault.at = "write" /\ fault.chunk \in k..(k + 3)
      THEN [st EXCEPT !.view = IF fault.chunk = k THEN st.view ELSE vs[fault.chunk - k],
                      !.writes = @ + (fault.chunk - k),
                      !.failed = TRUE]
      ELSE InsertTestQuestions(questions, test_id, i + 1, k + 4, fault,
               [st EXCEPT !.view = vs[4],
                          !.taken = @ \cup {question_id, answer_id},
                          !.created = Append(@, [id |-> question_id, src |-> i - 1]),
                          !.writes = @ + 4])

\* the number of write queries of a call with n questions: the test, TOOK,
\* four per question, the scores
TestWrites(n) == 4 * n + 3

\* the whole call: [store, result]
create_complete_test(us, store, ids, user_id, questions, fault) ==
    LET op == "create_complete_test" IN
    IF questions = <<>> THEN
        [store |-> store, result |-> Refused(op, "Questions array cannot be empty")]
    ELSE IF \E i \in 1..Len(questions) :
                MissingFields(questions[i], RequiredTestQuestionFields) # <<>> THEN
        [store |-> store, result |-> Refused(op, "Missing fields")]
    ELSE IF fault = ReadFault THEN
        [store |-> Rollback(store, store),
         result |-> [TransactionFailed(op, 0) EXCEPT !.struck = TRUE]]
    ELSE IF Match(us, user_id) = {} THEN
        [store |-> Rollback(store, store), result |-> Refused(op, "User not found")]
    ELSE
      LET test_id == Uuid4(ids)
          v1 == CreateTest(store, test_id)
          v2 == CreateTook(us, v1, user_id, test_id)
          w == IF fault = WriteFault(1)
               THEN [view |-> store, created |-> <<>>, writes |-> 0, failed |-> TRUE,
                     taken |-> ids]
               ELSE IF fault = WriteFault(2)
               THEN [view |-> v1, created |-> <<>>, writes |-> 1, failed |-> TRUE,
                     taken |-> ids]
               ELSE InsertTestQuestions(questions, test_id, 1, 3, fault,
                        [view |-> v2, created |-> <<>>, writes |-> 2, failed |-> FALSE,
                         taken |-> ids \cup {test_id}])
      IN
      \* the last write query sets the scores of the test
      IF w.failed \/ fault = WriteFault(TestWrites(Len(questions))) \/ fault = CommitFault THEN
          [store |-> Rollback(store, w.view),
           result |-> [TransactionFailed(op, w.writes) EXCEPT !.struck = TRUE]]
      ELSE
          [store |-> Commit(store, SetScores(w.view, test_id)),
           result |-> [NoResult EXCEPT !.op = op, !.outcome = "created",
                           !.keys = {"message", "test", "questions", "answers", "user",
                                     "summary", "success"},
                           !.created = w.created,
                           !.success = TRUE,
                           !.input = questions,
                           !.writes = w.writes + 1]]

-----------------------------------------------------------------------------
(* EducationSystem.delete_test and cleanup_orphaned_nodes                   *)

\* the labels of the two ends of a relationship of a type
RelEnds(type) ==
    CASE type = "TOOK" -> [from |-> "users", to |-> "tests"]
      [] type = "CONTAINS_QUESTION" -> [from |-> "tests", to |-> "questions"]
      [] type = "HAS_ANSWER" -> [from |-> "questions", to |-> "test_answers"]
      [] type = "BELONGS_TO_LESSON" -> [from |-> "questions", to |-> "lessons"]
      [] type = "ANSWERED" -> [from |-> "users", to |-> "answers"]
      [] type = "ANSWERS_QUESTION" -> [from |-> "answers", to |-> "questions"]

\* no node of any label
NoNodes ==
    [users |-> {}, lessons |-> {}, questions |-> {}, answers |-> {}, tests |-> {},
     test_answers |-> {}]

\* the nodes of a sequence that are not deleted, in their order
Keep(nodes, dead) ==
    LET kept == Ascending((1..Len(nodes)) \ dead)
    IN [n \in 1..Len(kept) |-> nodes[kept[n]]]

\* the position of node n once the nodes of dead are gone
Moved(n, dead) == n - Cardinality({x \in dead : x < n})

\* DETACH DELETE: the nodes of dead (positions, by label) go, and with them
\* every relationship that has one of them at an end
DetachDelete(view, dead) ==
    LET kept == Ascending({e \in 1..Len(view.rels) :
                    /\ view.rels[e].from \notin dead[RelEnds(view.rels[e].type).from]
                    /\ view.rels[e].to \notin dead[RelEnds(view.rels[e].type).to]})
    IN [lessons |-> Keep(view.lessons, dead.lessons),
        questions |-> Keep(view.questions, dead.questions),
        answers |-> Keep(view.answers, dead.answers),
        tests |-> Keep(view.tests, dead.tests),
        test_answers |-> Keep(view.test_answers, dead.test_answers),
        rels |-> [n \in 1..Len(kept) |->
                    LET r == view.rels[kept[n]] IN
                    [type |-> r.type,
                     from |-> Moved(r.from, dead[RelEnds(r.type).from]),
                     to |-> Moved(r.to, dead[RelEnds(r.type).to])]]]

\* a deletion that leaves the questions and their answers in the store
TestPathsNone(view, test_id) == {}

\* MATCH (t:Test {id: $test_id})-[:CONTAINS_QUESTION]->(q:Question)
\*       -[:HAS_ANSWER]->(a:TestAnswer): the rows <<t, q, a>>
TestPaths(view, test_id) ==
    {<<view.rels[c].from, view.rels[c].to, view.rels[h].to>> :
        <<c, h>> \in {x \in (1..Len(view.rels)) \X (1..Len(view.rels)) :
                        /\ view.rels[x[1]].type = "CONTAINS_QUESTION"
                        /\ view.rels[x[1]].from \in Match(view.tests, test_id)
                        /\ view.rels[x[2]].type = "HAS_ANSWER"
                        /\ view.rels[x[2]].from = view.rels[x[1]].to}}

\* delete_test: [store, result]; each query is its own transaction
delete_test(store, test_id) ==
    LET op == "delete_test"
        paths == TestPaths(store, test_id)
    IN
    IF Match(store.tests, test_id) = {} THEN
        [store |-> store,
         result |-> [Refused(op, "Test not found") EXCEPT !.input = <<test_id>>]]
    ELSE
        [store |-> DetachDelete(store,
                       [NoNodes EXCEPT !.tests = {row[1] : row \in paths},
                                       !.questions = {row[2] : row \in paths},
                                       !.test_answers = {row[3] : row \in paths}]),
         result |-> [NoResult EXCEPT !.op = op, !.outcome = "deleted",
                         !.keys = {"message", "test_id", "success"},
                         !.input = <<test_id>>,
                         !.success = TRUE,
                         !.writes = 1]]

\* MATCH (q:Question) WHERE NOT (q)-[:HAS_ANSWER]-() AND
\* NOT (q)<-[:CONTAINS_QUESTION]-() AND NOT (q)-[:BELONGS_TO_LESSON]->()
OrphanedQuestions(view) ==
    {q \in 1..Len(view.questions) :
        /\ RelsFrom(view, "HAS_ANSWER", q) = {}
        /\ RelsTo(view, "CONTAINS_QUESTION", q) = {}
        /\ RelsFrom(view, "BELONGS_TO_LESSON", q) = {}}

\* MATCH (a:TestAnswer) WHERE NOT (a)<-[:HAS_ANSWER]-()
OrphanedAnswers(view) ==
    {a \in 1..Len(view.test_answers) : RelsTo(view, "HAS_ANSWER", a) = {}}

\* cleanup_orphaned_nodes: the two queries, one after the other
cleanup_orphaned_nodes(store) ==
    LET v1 == DetachDelete(store, [NoNodes EXCEPT !.questions = OrphanedQuestions(store)])
        v2 == DetachDelete(v1, [NoNodes EXCEPT !.test_answers = OrphanedAnswers(v1)])
    IN [store |-> v2,
        result |-> [NoResult EXCEPT !.op = "cleanup_orphaned_nodes", !.outcome = "cleaned",
                        !.keys = {"message", "deleted_questions", "deleted_answers",
                                  "total_deleted", "success"},
                        !.total_created = 0,
                        !.success = TRUE,
                        !.writes = 2]]

-----------------------------------------------------------------------------
(* Knowledge: create_knowledge and the scripted import                      *)

\* MATCH (k:Knowledge {name: $name, subject: $subject, grade: $grade})
MatchKnowledge(kn, name, subject, grade) ==
    {n \in 1..Len(kn) : kn[n].name = name /\ kn[n].subject = subject /\ kn[n].grade = grade}

\* if existing.single()
KnowledgeExists(kn, name, subject, grade) == MatchKnowledge(kn, name, subject, grade) # {}

\* EducationSystem.create_knowledge (POST /api/v1/knowledge does the same
\* once its three fields are present): [store, result]
create_knowledge(kn, ids, name, subject, grade) ==
    IF KnowledgeExists(kn, name, subject, grade) THEN
        [store |-> kn, result |-> Refused("create_knowledge", "Knowledge already exists")]
    ELSE
      LET knowledge_data == [id |-> Uuid4(ids), name |-> name, subject |-> subject,
                             grade |-> grade]
      IN [store |-> Append(kn, knowledge_data),
          result |-> [NoResult EXCEPT !.op = "create_knowledge", !.outcome = "created",
                          !.keys = {"message", "knowledge", "success"},
                          !.created = <<knowledge_data>>,
                          !.success = TRUE,
                          !.writes = 1]]

\* get_knowledge_list(), cut to its first name
KnowledgeList == <<"Tren - Duoi">>

\* the data the script prepares: one node per name, a fresh id each
RECURSIVE PrepareKnowledge(_, _, _)
PrepareKnowledge(names, i, taken) ==
    IF i > Len(names) THEN <<>>
    ELSE LET id == Uuid4(taken)
         IN <<[id |-> id, name |-> names[i], subject |-> "Toan", grade |-> "Lop 1"]>>
            \o PrepareKnowledge(names, i + 1, taken \cup {id})

\* KnowledgeImporter.import_knowledge_nodes: the existing nodes are deleted
\* when asked and confirmed ("MATCH (k:Knowledge) DELETE k" fails when a
\* node still has a relationship, and the call raises); the prepared nodes
\* are then created, by one UNWIND ... CREATE or one by one, without a look
\* at the nodes of the store
import_knowledge_nodes(kn, lr, ids, clear_existing, confirmed) ==
    LET op == "import_knowledge_nodes"
        knowledge_data == PrepareKnowledge(KnowledgeList, 1, ids)
        clears == clear_existing /\ Len(kn) > 0 /\ confirmed
    IN
    IF clears /\ lr # <<>> THEN
        [store |-> kn, result |-> [NoResult EXCEPT !.op = op, !.outcome = "raised",
                                                   !.raised = TRUE]]
    ELSE
        [store |-> (IF clears THEN <<>> ELSE kn) \o knowledge_data,
         result |-> [NoResult EXCEPT !.op = op, !.outcome = "imported",
                         !.created = knowledge_data,
                         !.total_processed = Len(knowledge_data),
                         !.total_created = Len(knowledge_data),
                         !.writes = 1]]

-----------------------------------------------------------------------------
(* LEARNED links                                                            *)

\* datetime.now().isoformat(): the time of the call that creates a link, and
\* the later time of a call that updates it
AtCreation == "at creation"
AtUpdate == "at update"

\* the range is not enforced
ClampNever(progress) ==
    progress

\* min(100, max(0, progress))
Clamp(progress) ==
    IF progress < 0 THEN 0 ELSE IF progress > 100 THEN 100 ELSE progress

\* MATCH (u:User {id: $user_id})-[r:LEARNED]->(k:Knowledge {id: $knowledge_id})
MatchLearned(us, kn, lr, user_id, knowledge_id) ==
    {e \in 1..Len(lr) : lr[e].from \in Match(us, user_id) /\ lr[e].to \in Match(kn, knowledge_id)}

\* UNWIND $links as link MATCH (u:User {id: link.user_id})
\* MATCH (k:Knowledge {id: link.knowledge_id}) CREATE (u)-[r:LEARNED {...}]->(k)
RECURSIVE CreateLearned(_, _, _)
CreateLearned(us, kn, links) ==
    IF links = <<>> THEN <<>>
    ELSE
      LET link == Head(links)
          pairs == MatchCreate("LEARNED", us, kn,
                       <<[from_id |-> link.user_id, to_id |-> link.knowledge_id]>>)
      IN [n \in 1..Len(pairs) |->
              [from |-> pairs[n].from, to |-> pairs[n].to,
               progress |-> link.progress, status |-> link.status,
               linkedAt |-> AtCreation, createdAt |-> AtCreation,
               updatedAt |-> AtCreation]]
         \o CreateLearned(us, kn, Tail(links))

\* EducationSystem.link_user_knowledge (POST .../knowledge/<id> is the call
\* with progress 0): [store, result]
link_user_knowledge(us, kn, lr, user_id, knowledge_id, progress) ==
    LET op == "link_user_knowledge" IN
    IF Match(us, user_id) = {} THEN
        [store |-> lr, result |-> Refused(op, "User not found")]
    ELSE IF Match(kn, knowledge_id) = {} THEN
        [store |-> lr, result |-> Refused(op, "Knowledge not found")]
    ELSE IF MatchLearned(us, kn, lr, user_id, knowledge_id) # {} THEN
        [store |-> lr, result |-> Refused(op, "User already linked to this knowledge")]
    ELSE
      LET link == [user_id |-> user_id, knowledge_id |-> knowledge_id,
                   progress |-> Clamp(progress), status |-> "learning", src |-> 0]
      IN [store |-> lr \o CreateLearned(us, kn, <<link>>),
          result |-> [NoResult EXCEPT !.op = op, !.outcome = "created",
                          !.keys = {"message", "link", "success"},
                          !.created = <<link>>,
                          !.success = TRUE,
                          !.writes = 1]]

AllowedStatuses == {"learning", "completed", "mastered", "reviewing"}

\* update_user_knowledge_progress: progress and status are optional, <<>>
\* when not given and <<value>> when given
update_user_knowledge_progress(us, kn, lr, user_id, knowledge_id, progress, status) ==
    LET op == "update_user_knowledge_progress"
        rels == MatchLearned(us, kn, lr, user_id, knowledge_id)
    IN
    IF rels = {} THEN
        [store |-> lr, result |-> Refused(op, "User-Knowledge relationship not found")]
    ELSE
        [store |-> [e \in 1..Len(lr) |->
                      IF e \notin rels THEN lr[e]
                      ELSE [lr[e] EXCEPT
                              !.updatedAt = AtUpdate,
                              !.progress = IF progress = <<>> THEN @ ELSE Clamp(progress[1]),
                              !.status = IF status # <<>> /\ status[1] \in AllowedStatuses
                                         THEN status[1] ELSE @]],
         result |-> [NoResult EXCEPT !.op = op, !.outcome = "updated",
                         !.keys = {"message", "update", "success"},
                         !.success = TRUE,
                         !.writes = 1]]

\* unlink_user_knowledge: MATCH ... DELETE r
unlink_user_knowledge(us, kn, lr, user_id, knowledge_id) ==
    LET op == "unlink_user_knowledge"
        rels == MatchLearned(us, kn, lr, user_id, knowledge_id)
        kept == Ascending((1..Len(lr)) \ rels)
    IN
    IF rels = {} THEN
        [store |-> lr, result |-> Refused(op, "User-Knowledge relationship not found")]
    ELSE
        [store |-> [n \in 1..Len(kept) |-> lr[kept[n]]],
         result |-> [NoResult EXCEPT !.op = op, !.outcome = "unlinked",
                         !.keys = {"message", "unlinked", "success"},
                         !.success = TRUE,
                         !.writes = 1]]

-----------------------------------------------------------------------------
(* POST /api/v1/users/bulk/knowledge: bulk_link_users_knowledge             *)

\* the validation loop; progress is <<>> when the record has none
RECURSIVE ValidateLinks(_, _, _)
ValidateLinks(links_data, i, acc) ==
    IF i > Len(links_data) THEN acc
    ELSE
      LET link == links_data[i] IN
      IF link.user_id = ABSENT \/ link.knowledge_id = ABSENT THEN
          ValidateLinks(links_data, i + 1,
              [acc EXCEPT !.errors = Append(@,
                  Reason("Missing user_id or knowledge_id", i - 1, <<>>, i - 1))])
      ELSE
          ValidateLinks(links_data, i + 1,
              [acc EXCEPT !.valid = Append(@,
                  [user_id |-> link.user_id,
                   knowledge_id |-> link.knowledge_id,
                   progress |-> Clamp(IF link.progress = <<>> THEN 0 ELSE link.progress[1]),
                   status |-> "learning",
                   src |-> i - 1])])

\* MATCH (k:Knowledge) WHERE k.id IN $knowledge_ids RETURN k.id as id
ExistingKnowledge(kn, knowledge_ids) == IdsOf(kn) \cap knowledge_ids

\* the filter loop: the user is looked at first
RECURSIVE FilterLinks(_, _, _, _)
FilterLinks(valid_links, existing_users, existing_knowledge, i) ==
    IF i > Len(valid_links) THEN [final |-> <<>>, errors |-> <<>>]
    ELSE
      LET link == valid_links[i]
          rest == FilterLinks(valid_links, existing_users, existing_knowledge, i + 1)
      IN IF link.user_id \notin existing_users
         THEN [final |-> rest.final,
               errors |-> <<Reason("User not found", 0 - 1, link.user_id, link.src)>>
                          \o rest.errors]
         ELSE IF link.knowledge_id \notin existing_knowledge
         THEN [final |-> rest.final,
               errors |-> <<Reason("Knowledge not found", 0 - 1, link.knowledge_id, link.src)>>
                          \o rest.errors]
         ELSE [final |-> <<link>> \o rest.final, errors |-> rest.errors]

\* f"{user_id}|{knowledge_id}", and u.id + '|' + k.id in the query
LinkKey(user_id, knowledge_id) == user_id \o <<"|">> \o knowledge_id

\* MATCH (u:User)-[r:LEARNED]->(k:Knowledge) WHERE u.id IN $user_ids AND
\* k.id IN $knowledge_ids RETURN u.id + '|' + k.id as link_key
ExistingRels(us, kn, lr, user_ids, knowledge_ids) ==
    {LinkKey(us[lr[e].from].id, kn[lr[e].to].id) :
        e \in {x \in 1..Len(lr) : /\ us[lr[x].from].id \in user_ids
                                  /\ kn[lr[x].to].id \in knowledge_ids}}

\* the links whose key is among the relationships of the store are left out
RECURSIVE FilterExistingRels(_, _, _)
FilterExistingRels(final_links, existing_rels, i) ==
    IF i > Len(final_links) THEN [new_links |-> <<>>, errors |-> <<>>]
    ELSE
      LET link == final_links[i]
          rest == FilterExistingRels(final_links, existing_rels, i + 1)
      IN IF LinkKey(link.user_id, link.knowledge_id) \in existing_rels
         THEN [new_links |-> rest.new_links,
               errors |-> <<ReasonAbout("User already linked to knowledge",
                                        link.user_id, link.knowledge_id, link.src)>>
                          \o rest.errors]
         ELSE [new_links |-> <<link>> \o rest.new_links, errors |-> rest.errors]

\* the dict returned after tx.commit()
LinksImported(links_data, new_links, errors) ==
    [NoResult EXCEPT !.op = "bulk_link_users_knowledge", !.outcome = "imported",
                     !.keys = {"message", "created_links", "total_processed",
                               "total_created", "total_errors", "errors", "success"},
                     !.created = new_links, !.errors = errors,
                     !.total_processed = Len(links_data),
                     !.total_created = Len(new_links),
                     !.total_errors = Len(errors),
                     !.success = Len(new_links) > 0,
                     !.input = links_data, !.began = TRUE,
                     !.chunks = IF new_links = <<>> THEN <<>> ELSE <<new_links>>,
                     !.writes = IF new_links = <<>> THEN 0 ELSE 1]

\* the whole call: [store, result]; store is the LEARNED relationships
bulk_link_users_knowledge(us, kn, store, links_data, fault) ==
    LET op == "bulk_link_users_knowledge"
        v == ValidateLinks(links_data, 1, [valid |-> <<>>, errors |-> <<>>])
    IN
    IF v.valid = <<>> THEN
        [store |-> Rollback(store, store),
         result |-> NoValidRecords(op, links_data, v.errors)]
    ELSE IF fault = ReadFault THEN
        [store |-> Rollback(store, store),
         result |-> [TransactionFailed(op, 0) EXCEPT !.struck = TRUE]]
    ELSE
      LET user_ids == {v.valid[n].user_id : n \in 1..Len(v.valid)}
          knowledge_ids == {v.valid[n].knowledge_id : n \in 1..Len(v.valid)}
          f == FilterLinks(v.valid, ExistingUsers(us, user_ids),
                           ExistingKnowledge(kn, knowledge_ids), 1)
          x == FilterExistingRels(f.final,
                   ExistingRels(us, kn, store, user_ids, knowledge_ids), 1)
          errors == v.errors \o f.errors \o x.errors
          view == store \o CreateLearned(us, kn, x.new_links)
      IN
      IF x.new_links # <<>> /\ fault = WriteFault(1) THEN
          [store |-> Rollback(store, store),
           result |-> [TransactionFailed(op, 0) EXCEPT !.struck = TRUE]]
      ELSE IF fault = CommitFault THEN
          [store |-> Rollback(store, view),
           result |-> [TransactionFailed(op, IF x.new_links = <<>> THEN 0 ELSE 1)
                           EXCEPT !.struck = TRUE]]
      ELSE
          [store |-> Commit(store, view),
           result |-> LinksImported(links_data, x.new_links, errors)]

-----------------------------------------------------------------------------
(* Inputs                                                                   *)

EmailA == <<"a", "@", "x">>
EmailAVariant == <<" ", "A", "@", "x">>
EmailB == <<"b", "@", "x">>
EmailNoAt == <<"a", "x">>

IdU == <<"u">>
IdUPadded == <<"u", " ">>
IdV == <<"v">>
IdBlank == <<" ">>
IdEmpty == <<>>

Name == <<"n">>

\* the input records of the user imports: a record without a name, a record
\* without an id, two records whose ids are equal once stripped and whose
\* emails differ, a blank id
UserInputs ==
    { [name |-> ABSENT, email |-> EmailA,        id |-> IdU],
      [name |-> Name,   email |-> EmailA,        id |-> ABSENT],
      [name |-> Name,   email |-> EmailAVariant, id |-> IdU],
      [name |-> Name,   email |-> EmailB,        id |-> IdUPadded],
      [name |-> Name,   email |-> EmailB,        id |-> IdBlank] }

\* the lists of at most n input records
RECURSIVE Batches(_, _)
Batches(S, n) ==
    IF n <= 0 THEN {<<>>}
    ELSE LET shorter == Batches(S, n - 1)
         IN shorter \cup {Append(b, x) : b \in {c \in shorter : Len(c) = n - 1}, x \in S}

\* the default batch size of the user imports
DefaultUserBatchSize == 1000

\* the batch sizes that split a list of n records in different ways
BatchSizes(n) == {b \in 1..(n - 1) : b <= 2} \cup {DefaultUserBatchSize}

\* the number of chunks of n records: len(range(0, n, batch_size))
NumChunks(n, batch_size) == (n + batch_size - 1) \div batch_size

-----------------------------------------------------------------------------
(* Calls in flight                                                          *)

\* the calls that can run side by side
Procs == {1, 2}

\* a call that has not begun; pc is the place of the call in its code, valid
\* and errors the lists of its validation loop, final the records that its
\* lookups left, written how many of them it has written in its transaction,
\* done the parts of its code that it has been through
IdleCall ==
    [op |-> "none", pc |-> "idle", input |-> <<>>, valid |-> <<>>, errors |-> <<>>,
     final |-> <<>>, written |-> 0, done |-> {}]

NoCalls == [isolation |-> "none", proc |-> [p \in Procs |-> IdleCall]]

\* a call that writes as soon as its validation loop ends
PhasesWriteFirst(op) ==
    <<"validating", "inserting", "checking", "resolving">>

\* the parts of the code of a bulk import between begin_transaction and
\* tx.commit(), in the order of the code: the validation loop, the lookups
\* of the referenced nodes with their filter loop (the bulk link only), the
\* lookup of what the store already holds with its filter loop, the writes
Phases(op) ==
    IF op = "bulk_link_users_knowledge"
    THEN <<"validating", "resolving", "checking", "inserting">>
    ELSE <<"validating", "checking", "inserting">>

\* the part of the code that follows pc
PhaseAfter(op, pc) ==
    LET parts == Phases(op)
        n == CHOOSE n \in 1..Len(parts) : parts[n] = pc
    IN parts[n + 1]

-----------------------------------------------------------------------------
(* The user-management specification                                        *)

Init ==
    /\ users = <<>>
    /\ graph = EmptyGraph
    /\ knowledge = <<>>
    /\ learned = <<>>
    /\ result = NoResult
    /\ calls = NoCalls

BulkCreateUsers ==
    \E users_data \in Batches(UserInputs, MaxUsers - Len(users)) :
      \E batch_size \in BatchSizes(Len(users_data)) :
      \E fault \in Faults(NumChunks(Len(users_data), batch_size)) :
        LET r == bulk_create_users(users, users_data, batch_size, fault) IN
          /\ users' = r.store
          /\ result' = r.result
          /\ UNCHANGED otherVars

ImportUsersOptimized ==
    \E users_data \in Batches(UserInputs, MaxUsers - Len(users)) :
      \E batch_size \in BatchSizes(Len(users_data)) :
      \E fault \in Faults(NumChunks(Len(users_data), batch_size)) :
        LET r == import_users_optimized(users, users_data, batch_size, fault) IN
          /\ users' = r.store
          /\ result' = r.result
          /\ UNCHANGED otherVars

CreateUser ==
    /\ Len(users) < MaxUsers
    /\ \E email \in {EmailA, EmailAVariant, EmailB}, user_id \in {ABSENT, IdEmpty, IdU, IdV} :
        LET r == create_user(users, email, user_id) IN
          /\ users' = r.store
          /\ result' = r.result
          /\ UNCHANGED otherVars

Next == BulkCreateUsers \/ ImportUsersOptimized \/ CreateUser

Spec == Init /\ [][Next]_vars

-----------------------------------------------------------------------------
(* The content specification: seeding, questions, answers, tests            *)

\* the store holds at most this many Questions, Answers and LEARNED links: a
\* call is only made when the store plus the call's input stays within it
MaxRecords == 3

\* the store holds at most this many Tests
MaxTests == 1

Room == MaxRecords - (Len(graph.questions) + Len(graph.answers) + Len(learned))

\* the default batch size of the imports that carry relationships
DefaultRelBatchSize == 500

RelBatchSizes(n) == {b \in 1..(n - 1) : b <= 2} \cup {DefaultRelBatchSize}

\* an id that no node has
IdMissing == <<"z">>
Title == <<"t">>
Present == <<"c">>

\* the question records: a lesson of the store, a lesson that does not
\* exist, no lesson_id
QuestionInputs ==
    {[lesson_id |-> l, title |-> Title, content |-> Present, correct_answer |-> Present,
      difficulty |-> Present, page |-> Present] :
        l \in IdsOf(graph.lessons) \cup {IdMissing, ABSENT}}

\* the id of the first node, if any
FirstId(nodes) == IF nodes = <<>> THEN {} ELSE {nodes[1].id}

\* the id of the last node, if any
LastId(nodes) == IF nodes = <<>> THEN {} ELSE {nodes[Len(nodes)].id}

\* the pairs of ids of a record with two references: both of the store,
\* the second missing, both missing
RefPairs(first_ids, second_ids) ==
    {<<a, b>> : a \in first_ids, b \in second_ids \cup {IdMissing}}
        \cup {<<IdMissing, IdMissing>>}

\* the answer records: a user and a question of the store or not, and a
\* record without user_id
AnswerInputs ==
    {[user_id |-> p[1], question_id |-> p[2], student_answer |-> Present,
      is_correct |-> Present] : p \in RefPairs(FirstId(users), LastId(graph.questions))}
    \cup {[user_id |-> ABSENT, question_id |-> IdMissing, student_answer |-> Present,
           is_correct |-> Present]}

\* the questions of a test: complete, or without the "question" field
TestQuestionInputs ==
    {[question |-> q, answer |-> Present, student_answer |-> Present, is_correct |-> Present] :
        q \in {Present, ABSENT}}

RunImport ==
    \E answered \in SeedAnswerCounts(Len(SeedItems)) :
        LET r == run_import(answered) IN
          /\ users' = r.users
          /\ graph' = r.graph
          /\ knowledge' = <<>>
          /\ learned' = <<>>
          /\ result' = [NoResult EXCEPT !.op = "run_import", !.outcome = "done"]
          /\ UNCHANGED calls

ImportQuestionsOptimized ==
    \E questions_data \in Batches(QuestionInputs, Room) :
      \E batch_size \in RelBatchSizes(Len(questions_data)) :
      \E fault \in Faults(2 * NumChunks(Len(questions_data), batch_size)) :
        LET r == import_questions_optimized(graph, StoreIds(users, graph, knowledge),
                                            questions_data, batch_size, fault) IN
          /\ graph' = r.store
          /\ result' = r.result
          /\ UNCHANGED <<users, knowledge, learned, calls>>

ImportAnswersOptimized ==
    \E answers_data \in Batches(AnswerInputs, Room) :
      \E batch_size \in RelBatchSizes(Len(answers_data)) :
      \E fault \in Faults(3 * NumChunks(Len(answers_data), batch_size)) :
        LET r == import_answers_optimized(users, graph, StoreIds(users, graph, knowledge),
                                          answers_data, batch_size, fault) IN
          /\ graph' = r.store
          /\ result' = r.result
          /\ UNCHANGED <<users, knowledge, learned, calls>>

CreateCompleteTest ==
    /\ Len(graph.tests) < MaxTests
    /\ \E user_id \in IdsOf(users) \cup {IdMissing} :
       \E questions \in Batches(TestQuestionInputs, Room) :
       \E fault \in Faults(TestWrites(Len(questions))) :
        LET r == create_complete_test(users, graph, StoreIds(users, graph, knowledge),
                                      user_id, questions, fault) IN
          /\ graph' = r.store
          /\ result' = r.result
          /\ UNCHANGED <<users, knowledge, learned, calls>>

NextContent ==
    RunImport \/ ImportQuestionsOptimized \/ ImportAnswersOptimized \/ CreateCompleteTest

SpecContent == Init /\ [][NextContent]_vars

-----------------------------------------------------------------------------
(* The learning specification: knowledge and LEARNED links                  *)

\* the store holds at most this many Knowledge nodes
MaxKnowledge == 2

\* the link records: users and knowledge of the store or not, with a
\* progress above the range, and a record without user_id
LinkInputs ==
    {[user_id |-> p[1], knowledge_id |-> p[2], progress |-> <<150>>] :
        p \in RefPairs(FirstId(users), LastId(knowledge))}
    \cup {[user_id |-> ABSENT, knowledge_id |-> IdMissing, progress |-> <<>>]}

\* the optional arguments of a progress update: [progress, status]
UpdateInputs ==
    {[progress |-> <<150>>, status |-> <<>>],
     [progress |-> <<0 - 5>>, status |-> <<>>],
     [progress |-> <<>>, status |-> <<"completed">>],
     [progress |-> <<>>, status |-> <<"unknown">>]}

CreateKnowledge ==
    /\ Len(knowledge) < MaxKnowledge
    /\ \E grade \in {"Lop 1", "Lop 2"} :
        LET r == create_knowledge(knowledge, StoreIds(users, graph, knowledge),
                                  KnowledgeList[1], "Toan", grade) IN
          /\ knowledge' = r.store
          /\ result' = r.result
          /\ UNCHANGED <<users, graph, learned, calls>>

ImportKnowledgeNodes ==
    \E clear_existing \in BOOLEAN, confirmed \in BOOLEAN :
        LET r == import_knowledge_nodes(knowledge, learned, StoreIds(users, graph, knowledge),
                                        clear_existing, confirmed) IN
          /\ Len(r.store) <= MaxKnowledge
          /\ knowledge' = r.store
          /\ result' = r.result
          /\ UNCHANGED <<users, graph, learned, calls>>

LinkUserKnowledge ==
    /\ Room >= 1
    /\ \E user_id \in IdsOf(users) \cup {IdMissing},
          knowledge_id \in IdsOf(knowledge) \cup {IdMissing},
          progress \in {0, 0 - 5, 150} :
        LET r == link_user_knowledge(users, knowledge, learned, user_id, knowledge_id,
                                     progress) IN
          /\ learned' = r.store
          /\ result' = r.result
          /\ UNCHANGED <<users, graph, knowledge, calls>>

BulkLinkUsersKnowledge ==
    \E links_data \in Batches(LinkInputs, Room) :
      \E fault \in Faults(1) :
        LET r == bulk_link_users_knowledge(users, knowledge, learned, links_data, fault) IN
          /\ learned' = r.store
          /\ result' = r.result
          /\ UNCHANGED <<users, graph, knowledge, calls>>

UpdateUserKnowledgeProgress ==
    \E user_id \in IdsOf(users) \cup {IdMissing},
       knowledge_id \in IdsOf(knowledge) \cup {IdMissing},
       update \in UpdateInputs :
        LET r == update_user_knowledge_progress(users, knowledge, learned, user_id,
                                                knowledge_id, update.progress,
                                                update.status) IN
          /\ learned' = r.store
          /\ result' = r.result
          /\ UNCHANGED <<users, graph, knowledge, calls>>

UnlinkUserKnowledge ==
    \E user_id \in IdsOf(users) \cup {IdMissing},
       knowledge_id \in IdsOf(knowledge) \cup {IdMissing} :
        LET r == unlink_user_knowledge(users, knowledge, learned, user_id, knowledge_id) IN
          /\ learned' = r.store
          /\ result' = r.result
          /\ UNCHANGED <<users, graph, knowledge, calls>>

NextLearn ==
    \/ RunImport
    \/ CreateKnowledge
    \/ ImportKnowledgeNodes
    \/ LinkUserKnowledge
    \/ BulkLinkUsersKnowledge
    \/ UpdateUserKnowledgeProgress
    \/ UnlinkUserKnowledge

SpecLearn == Init /\ [][NextLearn]_vars

-----------------------------------------------------------------------------
(* The seeded store                                                          *)

\* the store after the two seeding scripts ran, add_data.py and then
\* create_knowledge.py
InitSeeded ==
    LET seeded == run_import(0)
        kn == import_knowledge_nodes(<<>>, <<>>, StoreIds(seeded.users, seeded.graph, <<>>),
                                     FALSE, FALSE)
    IN /\ users = seeded.users
       /\ graph = seeded.graph
       /\ knowledge = kn.store
       /\ learned = <<>>
       /\ result = NoResult
       /\ calls = NoCalls

-----------------------------------------------------------------------------
(* The progress specification: the operations that write the progress of a  *)
(* link, and the unlink, on a seeded store                                  *)

\* the link records, and one of a user and a knowledge of the store with a
\* progress below the range
ProgressLinkInputs ==
    LinkInputs
    \cup {[user_id |-> a, knowledge_id |-> b, progress |-> <<0 - 5>>] :
              a \in FirstId(users), b \in LastId(knowledge)}

BulkLinkAnyProgress ==
    \E links_data \in Batches(ProgressLinkInputs, Room) :
      \E fault \in Faults(1) :
        LET r == bulk_link_users_knowledge(users, knowledge, learned, links_data, fault) IN
          /\ learned' = r.store
          /\ result' = r.result
          /\ UNCHANGED <<users, graph, knowledge, calls>>

NextProgress ==
    \/ LinkUserKnowledge
    \/ BulkLinkAnyProgress
    \/ UpdateUserKnowledgeProgress
    \/ UnlinkUserKnowledge

SpecProgress == InitSeeded /\ [][NextProgress]_vars

-----------------------------------------------------------------------------
(* The batch specification: bulk_create_users, called with its default     *)
(* batch size on lists of records, some of which the store already holds    *)

\* a call is given at most this many records
MaxBatch == 2

\* the records of a list: two records with the same email once normalised
\* (one without an id), two records whose ids are equal once stripped, an
\* email without "@", an email that is a number
BatchInputs ==
    { [name |-> Name,   email |-> EmailA,        id |-> ABSENT],
      [name |-> Name,   email |-> EmailAVariant, id |-> IdU],
      [name |-> Name,   email |-> EmailB,        id |-> IdUPadded],
      [name |-> Name,   email |-> EmailNoAt,     id |-> IdV],
      [name |-> Name,   email |-> NONSTR,        id |-> IdV] }

\* the store answers every query of the call, or fails at tx.commit()
BatchFaults == {NoFault, CommitFault}

BulkCreateUsersBatch ==
    \E users_data \in Batches(BatchInputs, MaxBatch) :
      \E fault \in BatchFaults :
        LET r == bulk_create_users(users, users_data, DefaultUserBatchSize, fault) IN
          /\ Len(r.store) <= MaxUsers
          /\ users' = r.store
          /\ result' = r.result
          /\ UNCHANGED otherVars

NextBatch == CreateUser \/ BulkCreateUsersBatch

SpecBatch == Init /\ [][NextBatch]_vars

-----------------------------------------------------------------------------
(* The result specification: the library user import and the bulk link on   *)
(* a seeded store                                                           *)

NextFlag == BulkCreateUsersBatch \/ BulkLinkUsersKnowledge

SpecFlag == InitSeeded /\ [][NextFlag]_vars

-----------------------------------------------------------------------------
(* The chunking specification: the two imports whose batch size the caller  *)
(* chooses, on an empty store and on a seeded one                           *)

\* the calls of this specification meet no failure of the store
BulkCreateUsersChunked ==
    \E users_data \in Batches(UserInputs, MaxUsers - Len(users)) :
      \E batch_size \in BatchSizes(Len(users_data)) :
        LET r == bulk_create_users(users, users_data, batch_size, NoFault) IN
          /\ users' = r.store
          /\ result' = r.result
          /\ UNCHANGED otherVars

ImportQuestionsChunked ==
    \E questions_data \in Batches(QuestionInputs, Room) :
      \E batch_size \in RelBatchSizes(Len(questions_data)) :
        LET r == import_questions_optimized(graph, StoreIds(users, graph, knowledge),
                                            questions_data, batch_size, NoFault) IN
          /\ graph' = r.store
          /\ result' = r.result
          /\ UNCHANGED <<users, knowledge, learned, calls>>

NextChunks == BulkCreateUsersChunked \/ RunImport \/ ImportQuestionsChunked

SpecChunks == Init /\ [][NextChunks]_vars

-----------------------------------------------------------------------------
(* The structure specification: the four bulk imports, each with a batch    *)
(* size of the caller, no store operation failing                           *)

ImportAnswersChunked ==
    \E answers_data \in Batches(AnswerInputs, Room) :
      \E batch_size \in RelBatchSizes(Len(answers_data)) :
        LET r == import_answers_optimized(users, graph, StoreIds(users, graph, knowledge),
                                          answers_data, batch_size, NoFault) IN
          /\ graph' = r.store
          /\ result' = r.result
          /\ UNCHANGED <<users, knowledge, learned, calls>>

\* the bulk link reads data['links'] only: a batch_size of the request is
\* not looked at
BulkLinkBatched ==
    \E links_data \in Batches(LinkInputs, Room) :
      \E batch_size \in RelBatchSizes(Len(links_data)) :
        LET r == bulk_link_users_knowledge(users, knowledge, learned, links_data, NoFault) IN
          /\ learned' = r.store
          /\ result' = [r.result EXCEPT !.batch_size = batch_size]
          /\ UNCHANGED <<users, graph, knowledge, calls>>

NextStructure ==
    \/ BulkCreateUsersChunked
    \/ ImportQuestionsChunked
    \/ ImportAnswersChunked
    \/ BulkLinkBatched

SpecStructure == InitSeeded /\ [][NextStructure]_vars

\* the reference specification: the three imports that check references,
\* on the seeded store, the question and answer imports with no store
\* operation failing
NextRefs ==
    \/ ImportQuestionsChunked
    \/ ImportAnswersChunked
    \/ BulkLinkUsersKnowledge

SpecRefs == InitSeeded /\ [][NextRefs]_vars

-----------------------------------------------------------------------------
(* The test specification: tests created, deleted and cleaned up on a      *)
(* store that holds one user or two                                         *)

\* a store of users, created with an id of their own or without, and
\* nothing else
InitUsers ==
    /\ users \in {create_user(<<>>, EmailA, IdU).store,
                  create_user(<<>>, EmailB, IdV).store,
                  create_user(<<>>, EmailA, ABSENT).store,
                  create_user(create_user(<<>>, EmailA, IdU).store, EmailB, IdV).store}
    /\ graph = EmptyGraph
    /\ knowledge = <<>>
    /\ learned = <<>>
    /\ result = NoResult
    /\ calls = NoCalls

DeleteTest ==
    \E test_id \in IdsOf(graph.tests) \cup {IdMissing} :
        LET r == delete_test(graph, test_id) IN
          /\ graph' = r.store
          /\ result' = r.result
          /\ UNCHANGED <<users, knowledge, learned, calls>>

CleanupOrphanedNodes ==
    LET r == cleanup_orphaned_nodes(graph) IN
      /\ graph' = r.store
      /\ result' = r.result
      /\ UNCHANGED <<users, knowledge, learned, calls>>

NextTests == CreateCompleteTest \/ DeleteTest \/ CleanupOrphanedNodes

SpecTests == InitUsers /\ [][NextTests]_vars

-----------------------------------------------------------------------------
(* The cancellation specification: the library user operations, and       *)
(* bulk_create_users interrupted                                           *)

\* the interruptions of a call that issues at most n writes: before each
\* write and before the commit
Interrupts(n) == {InterruptFault(k) : k \in 1..(n + 1)}

BulkCreateUsersInterrupted ==
    \E users_data \in Batches(UserInputs, MaxUsers - Len(users)) :
      \E batch_size \in BatchSizes(Len(users_data)) :
      \E fault \in Interrupts(NumChunks(Len(users_data), batch_size)) :
        LET r == bulk_create_users(users, users_data, batch_size, fault) IN
          /\ users' = r.store
          /\ result' = r.result
          /\ UNCHANGED otherVars

NextCancel == CreateUser \/ BulkCreateUsers \/ BulkCreateUsersInterrupted

SpecCancel == Init /\ [][NextCancel]_vars

-----------------------------------------------------------------------------
(* The race specification: two bulk user imports, each going through its    *)
(* code step by step, on a store of one of two isolation levels              *)

\* read committed: a read of a transaction sees what was committed before
\* the read; serializable: the store runs one transaction at a time
Isolations == {"read committed", "serializable"}

\* the places of a call between begin_transaction and the end of the block
OpenPcs == {"validating", "resolving", "checking", "inserting"}

\* the two bulk user imports
RaceOps == {"bulk_create_users", "import_users_optimized"}

\* the lists the racing calls are given: one record each
RaceInputs == {<<rec>> : rec \in UserInputs}

\* the ids that the other calls have assigned to their records
IdsInFlight(p) ==
    UNION {{calls.proc[q].valid[n].id : n \in 1..Len(calls.proc[q].valid)} :
              q \in {r \in Procs \ {p} : calls.proc[r].op \in RaceOps}}

InitRace ==
    /\ users = <<>>
    /\ graph = EmptyGraph
    /\ knowledge = <<>>
    /\ learned = <<>>
    /\ result = NoResult
    /\ calls \in {[NoCalls EXCEPT !.isolation = i] : i \in Isolations}

\* with session.begin_transaction() as tx
BeginCall(p) ==
    /\ calls.proc[p].pc = "idle"
    /\ calls.isolation = "serializable" =>
          \A q \in Procs : calls.proc[q].pc \notin OpenPcs
    /\ \E op \in RaceOps, users_data \in RaceInputs :
          calls' = [calls EXCEPT !.proc[p] =
                       [IdleCall EXCEPT !.op = op, !.pc = "validating",
                                        !.input = users_data]]
    /\ UNCHANGED <<users, graph, knowledge, learned, result>>

\* the validation loop, and the return when no record passed
ValidateCall(p) ==
    LET c == calls.proc[p]
        acc == EmptyAcc({users[n].id : n \in 1..Len(users)} \cup IdsInFlight(p))
        v == IF c.op = "bulk_create_users"
             THEN ValidateUsers(c.input, 1, acc)
             ELSE ValidateUsersApi(c.input, 1, acc)
    IN /\ c.pc = "validating"
       /\ c.op \in RaceOps
       /\ IF v.raised THEN
              /\ calls' = [calls EXCEPT !.proc[p].pc = "rolled back"]
              /\ result' = TransactionFailed(c.op, 0)
          ELSE IF v.valid = <<>> THEN
              /\ calls' = [calls EXCEPT !.proc[p].pc = "rolled back",
                                         !.proc[p].errors = v.errors,
                                         !.proc[p].done = @ \cup {c.pc}]
              /\ result' = NoValidRecords(c.op, c.input, v.errors)
          ELSE
              /\ calls' = [calls EXCEPT !.proc[p].pc = PhaseAfter(c.op, c.pc),
                                         !.proc[p].valid = v.valid,
                                         !.proc[p].errors = v.errors,
                                         !.proc[p].done = @ \cup {c.pc}]
              /\ UNCHANGED result
       /\ UNCHANGED <<users, graph, knowledge, learned>>

\* the lookups of the emails and ids, and the filter loop: the reads see
\* the committed store
CheckCall(p) ==
    LET c == calls.proc[p]
        email_list == [n \in 1..Len(c.valid) |-> c.valid[n].email]
        id_list == [n \in 1..Len(c.valid) |-> c.valid[n].id]
        f == IF c.op = "bulk_create_users"
             THEN FilterUsers(c.valid, ExistingEmails(users, email_list),
                              ExistingIds(users, id_list), 1)
             ELSE LET g == FilterUsersApi(c.valid, ExistingEmails(users, email_list), 1)
                  IN [new_users |-> g.new_users, errors |-> g.errors]
    IN /\ c.pc = "checking"
       /\ c.op \in RaceOps
       /\ calls' = [calls EXCEPT !.proc[p].pc = PhaseAfter(c.op, c.pc),
                                  !.proc[p].final = f.new_users,
                                  !.proc[p].errors = c.errors \o f.errors,
                                  !.proc[p].done = @ \cup {c.pc}]
       /\ UNCHANGED <<users, graph, knowledge, learned, result>>

\* one turn of the chunk loop: the write is in the transaction of the call
InsertCall(p) ==
    LET c == calls.proc[p] IN
       /\ c.pc = "inserting"
       /\ c.op \in RaceOps
       /\ c.written < Len(c.final)
       /\ calls' = [calls EXCEPT !.proc[p].written =
                       c.written + Len(Slice(c.final, c.written, DefaultUserBatchSize))]
       /\ UNCHANGED <<users, graph, knowledge, learned, result>>

\* tx.commit(), and the return of the result
CommitCall(p) ==
    LET c == calls.proc[p] IN
       /\ c.pc = "inserting"
       /\ c.op \in RaceOps
       /\ c.written = Len(c.final)
       /\ users' = Commit(users, CreateUserNodes(users, c.final))
       /\ calls' = [calls EXCEPT !.proc[p].pc = "committed",
                                  !.proc[p].done = @ \cup {c.pc}]
       /\ result' = Imported(c.op, c.input, c.final, c.errors,
                             NumChunks(Len(c.final), DefaultUserBatchSize))
       /\ UNCHANGED <<graph, knowledge, learned>>

NextRace ==
    \E p \in Procs :
        BeginCall(p) \/ ValidateCall(p) \/ CheckCall(p) \/ InsertCall(p) \/ CommitCall(p)

SpecRace == InitRace /\ [][NextRace]_vars

-----------------------------------------------------------------------------
(* The phase specification: the bulk user imports and the bulk link, each   *)
(* going through its code step by step on a seeded store, any statement of  *)
(* the transaction failing or not                                           *)

\* the lists a bulk link is given: one record each
LinkCallInputs == {<<rec>> : rec \in LinkInputs}

\* the ids that the valid records of a call refer to
UserIdsOf(valid) == {valid[n].user_id : n \in 1..Len(valid)}
KnowledgeIdsOf(valid) == {valid[n].knowledge_id : n \in 1..Len(valid)}

\* with session.begin_transaction() as tx
BeginLinkCall(p) ==
    /\ calls.proc[p].pc = "idle"
    /\ \E links_data \in LinkCallInputs :
          calls' = [calls EXCEPT !.proc[p] =
                       [IdleCall EXCEPT !.op = "bulk_link_users_knowledge",
                                        !.pc = "validating", !.input = links_data]]
    /\ UNCHANGED <<users, graph, knowledge, learned, result>>

\* the validation loop, and the return when no record passed
ValidateLinkCall(p) ==
    LET c == calls.proc[p]
        v == ValidateLinks(c.input, 1, [valid |-> <<>>, errors |-> <<>>])
    IN /\ c.pc = "validating"
       /\ c.op = "bulk_link_users_knowledge"
       /\ IF v.valid = <<>> THEN
              /\ calls' = [calls EXCEPT !.proc[p].pc = "rolled back",
                                         !.proc[p].errors = v.errors,
                                         !.proc[p].done = @ \cup {c.pc}]
              /\ result' = NoValidRecords(c.op, c.input, v.errors)
          ELSE
              /\ calls' = [calls EXCEPT !.proc[p].pc = PhaseAfter(c.op, c.pc),
                                         !.proc[p].valid = v.valid,
                                         !.proc[p].errors = v.errors,
                                         !.proc[p].done = @ \cup {c.pc}]
              /\ UNCHANGED result
       /\ UNCHANGED <<users, graph, knowledge, learned>>

\* the lookups of the users and of the knowledge, and the filter loop
ResolveLinkCall(p) ==
    LET c == calls.proc[p]
        f == FilterLinks(c.valid, ExistingUsers(users, UserIdsOf(c.valid)),
                         ExistingKnowledge(knowledge, KnowledgeIdsOf(c.valid)), 1)
    IN /\ c.pc = "resolving"
       /\ calls' = [calls EXCEPT !.proc[p].pc = PhaseAfter(c.op, c.pc),
                                  !.proc[p].final = f.final,
                                  !.proc[p].errors = c.errors \o f.errors,
                                  !.proc[p].done = @ \cup {c.pc}]
       /\ UNCHANGED <<users, graph, knowledge, learned, result>>

\* the lookup of the relationships of the store, and the filter loop
CheckLinkCall(p) ==
    LET c == calls.proc[p]
        x == FilterExistingRels(c.final,
                 ExistingRels(users, knowledge, learned, UserIdsOf(c.valid),
                              KnowledgeIdsOf(c.valid)), 1)
    IN /\ c.pc = "checking"
       /\ c.op = "bulk_link_users_knowledge"
       /\ calls' = [calls EXCEPT !.proc[p].pc = PhaseAfter(c.op, c.pc),
                                  !.proc[p].final = x.new_links,
                                  !.proc[p].errors = c.errors \o x.errors,
                                  !.proc[p].done = @ \cup {c.pc}]
       /\ UNCHANGED <<users, graph, knowledge, learned, result>>

\* if final_links: the one write of the call, in its transaction
InsertLinkCall(p) ==
    LET c == calls.proc[p] IN
       /\ c.pc = "inserting"
       /\ c.op = "bulk_link_users_knowledge"
       /\ c.written < Len(c.final)
       /\ calls' = [calls EXCEPT !.proc[p].written = Len(c.final)]
       /\ UNCHANGED <<users, graph, knowledge, learned, result>>

\* tx.commit(), and the return of the result
CommitLinkCall(p) ==
    LET c == calls.proc[p] IN
       /\ c.pc = "inserting"
       /\ c.op = "bulk_link_users_knowledge"
       /\ c.written = Len(c.final)
       /\ learned' = Commit(learned, learned \o CreateLearned(users, knowledge, c.final))
       /\ calls' = [calls EXCEPT !.proc[p].pc = "committed",
                                  !.proc[p].done = @ \cup {c.pc}]
       /\ result' = LinksImported(c.input, c.final, c.errors)
       /\ UNCHANGED <<users, graph, knowledge>>

\* a statement of the transaction raises (a lookup, a write or the commit):
\* except Exception: tx.rollback()
FailCall(p) ==
    LET c == calls.proc[p] IN
       /\ c.pc \in OpenPcs \ {"validating"}
       /\ calls' = [calls EXCEPT !.proc[p].pc = "rolled back"]
       /\ result' = [TransactionFailed(c.op, IF c.written > 0 THEN 1 ELSE 0)
                         EXCEPT !.struck = TRUE]
       /\ UNCHANGED <<users, graph, knowledge, learned>>

\* the steps of a call that has begun
RunCall(p) ==
    \/ ValidateCall(p) \/ CheckCall(p) \/ InsertCall(p) \/ CommitCall(p)
    \/ ValidateLinkCall(p) \/ ResolveLinkCall(p) \/ CheckLinkCall(p)
    \/ InsertLinkCall(p) \/ CommitLinkCall(p)
    \/ FailCall(p)

NextPhases ==
    \E p \in Procs : BeginCall(p) \/ BeginLinkCall(p) \/ RunCall(p)

\* a call that has begun runs on until it returns
SpecPhases ==
    InitSeeded /\ [][NextPhases]_vars /\ \A p \in Procs : WF_vars(RunCall(p))

-----------------------------------------------------------------------------
(* Properties of the user imports                                           *)

BulkUserOps == {"bulk_create_users", "import_users_optimized"}

\* the record passes the field and shape validation of the user imports
PassesValidation(rec) ==
    /\ rec.name # ABSENT
    /\ rec.email # ABSENT
    /\ IsStr(rec.email)
    /\ Contains("@", rec.email)

\* the record carries a caller-supplied id that is not empty (nor blank:
\* the code calls a blank id "Empty ID")
HasId(rec) == Truthy(rec.id) /\ Strip(rec.id) # <<>>

\* the call returned its lists (it did not fail as a whole)
ReturnedLists(r) == r.outcome \in {"imported", "no valid records"}

\* C1: atomicity of a bulk import: a call during which a store operation
\* fails (a read, any chunk's write after earlier chunks were written, or
\* the commit) leaves the store as it was before the call.
C1_Atomicity ==
    [][(result'.op \in BulkUserOps /\ result'.struck) => users' = users]_vars

\* a call failed at a chunk's write after an earlier chunk had been written
C1_Witness ==
    /\ result.op \in BulkUserOps
    /\ result.struck
    /\ result.writes >= 1

\* C3: no two User nodes of the store have the same email.
C3_EmailUnique ==
    \A i, j \in 1..Len(users) : users[i].email = users[j].email => i = j

\* C8: in the result of bulk_create_users, a validated record with a
\* non-empty id that an earlier validated record of the input also carries
\* is rejected with a duplicate-in-batch reason and is not among the created
\* users; the first validated record with that id gets no such reason.
C8_InBatchDuplicateIds ==
    (result.op = "bulk_create_users" /\ ReturnedLists(result)) =>
        \A j \in 1..Len(result.input) :
            LET rec == result.input[j]
                later == \E i \in 1..(j - 1) :
                            /\ PassesValidation(result.input[i])
                            /\ HasId(result.input[i])
                            /\ Strip(result.input[i].id) = Strip(rec.id)
                dup == \E e \in 1..Len(result.errors) :
                            /\ result.errors[e].kind = "Duplicate ID in batch"
                            /\ result.errors[e].src = j - 1
            IN (PassesValidation(rec) /\ HasId(rec)) =>
                 IF later
                 THEN /\ dup
                      /\ \A c \in 1..Len(result.created) : result.created[c].src # j - 1
                 ELSE ~dup

\* a batch with two validated records of the same id, the first of which
\* was created
C8_Witness ==
    /\ result.op = "bulk_create_users"
    /\ result.outcome = "imported"
    /\ \E e \in 1..Len(result.errors), c \in 1..Len(result.created) :
          /\ result.errors[e].kind = "Duplicate ID in batch"
          /\ result.errors[e].value = result.created[c].id
          /\ result.created[c].src < result.errors[e].src

\* C9: every record created by a bulk user import carries the id of its
\* input record when that id is not empty, and a generated id otherwise.
C9_IdentifierAssignment ==
    (result.op \in BulkUserOps /\ result.outcome = "imported") =>
        \A c \in 1..Len(result.created) :
            LET rec == result.input[result.created[c].src + 1] IN
            IF HasId(rec)
            THEN result.created[c].id = Strip(rec.id)
            ELSE Head(result.created[c].id) = "#"

-----------------------------------------------------------------------------
(* Properties of the content graph                                          *)

\* the relationships of the question to lessons
LessonsOf(g, q) == RelsFrom(g, "BELONGS_TO_LESSON", q)

C6_AnswerIntegrity ==
    [][\A a \in 1..Len(graph'.answers) :
          graph'.answers[a].by = "import_answers_optimized" =>
            /\ Cardinality(RelsTo(graph', "ANSWERED", a)) = 1
            /\ Cardinality(RelsFrom(graph', "ANSWERS_QUESTION", a)) = 1
            /\ a > Len(graph.answers) =>
                 /\ users' = users
                 /\ SubSeq(graph'.questions, 1, Len(graph.questions)) = graph.questions
                 /\ \A e \in RelsTo(graph', "ANSWERED", a) :
                        graph'.rels[e].from \in 1..Len(users)
                 /\ \A e \in RelsFrom(graph', "ANSWERS_QUESTION", a) :
                        graph'.rels[e].to \in 1..Len(graph.questions)]_vars

\* a bulk answer import committed two answers
C6_Witness ==
    /\ result.op = "import_answers_optimized"
    /\ Len(result.created) = 2
    /\ \E a \in 1..Len(graph.answers) : graph.answers[a].id = result.created[2].id

-----------------------------------------------------------------------------
(* Properties of the references and of the learning graph                   *)

\* the input record at position j (1-based) was created, was rejected with
\* the reason kind for the value
CreatedFrom(r, j) == \E c \in 1..Len(r.created) : r.created[c].src = j - 1
RejectedFor(r, j, kind, value) ==
    /\ ~CreatedFrom(r, j)
    /\ \E e \in 1..Len(r.errors) :
          /\ r.errors[e].src = j - 1
          /\ r.errors[e].kind = kind
          /\ r.errors[e].value = value
Accepted(r, j) ==
    /\ CreatedFrom(r, j)
    /\ \A e \in 1..Len(r.errors) : r.errors[e].src # j - 1

\* C2: in a bulk import of Questions, Answers or LEARNED links that returns
\* its lists, a record with its required fields whose lesson, user, question
\* or knowledge is not in the store at the time of the call is not inserted
\* and gets a reason that names the missing key and its value (the user
\* comes first when two keys are missing), at every position and for every
\* batch size; every other such record is inserted (a link: unless the
\* store holds it already), and nothing else is.
C2_ForeignKeyGating ==
    [][/\ (result'.op = "import_questions_optimized" /\ ReturnedLists(result')) =>
            /\ Len(graph'.questions) = Len(graph.questions) + Len(result'.created)
            /\ \A j \in 1..Len(result'.input) :
                 LET rec == result'.input[j] IN
                 MissingFields(rec, RequiredQuestionFields) = <<>> =>
                   IF rec.lesson_id \notin IdsOf(graph.lessons)
                   THEN RejectedFor(result', j, "Lesson not found for question", rec.lesson_id)
                   ELSE Accepted(result', j)
       /\ (result'.op = "import_answers_optimized" /\ ReturnedLists(result')) =>
            /\ Len(graph'.answers) = Len(graph.answers) + Len(result'.created)
            /\ \A j \in 1..Len(result'.input) :
                 LET rec == result'.input[j] IN
                 MissingFields(rec, RequiredAnswerFields) = <<>> =>
                   IF rec.user_id \notin IdsOf(users)
                   THEN RejectedFor(result', j, "User not found", rec.user_id)
                   ELSE IF rec.question_id \notin IdsOf(graph.questions)
                   THEN RejectedFor(result', j, "Question not found", rec.question_id)
                   ELSE Accepted(result', j)
       /\ (result'.op = "bulk_link_users_knowledge" /\ ReturnedLists(result')) =>
            /\ Len(learned') = Len(learned) + Len(result'.created)
            /\ \A j \in 1..Len(result'.input) :
                 LET rec == result'.input[j] IN
                 (rec.user_id # ABSENT /\ rec.knowledge_id # ABSENT) =>
                   IF rec.user_id \notin IdsOf(users)
                   THEN RejectedFor(result', j, "User not found", rec.user_id)
                   ELSE IF rec.knowledge_id \notin IdsOf(knowledge)
                   THEN RejectedFor(result', j, "Knowledge not found", rec.knowledge_id)
                   ELSE \/ Accepted(result', j)
                        \/ RejectedFor(result', j, "User already linked to knowledge",
                                       rec.user_id)
      ]_vars

\* a question import rejected its first record for its lesson and created
\* the record that follows
C2_Witness ==
    /\ result.op = "import_questions_optimized"
    /\ result.outcome = "imported"
    /\ \E e \in 1..Len(result.errors), c \in 1..Len(result.created) :
          /\ result.errors[e].kind = "Lesson not found for question"
          /\ result.errors[e].value = IdMissing
          /\ result.errors[e].src = 0
          /\ result.created[c].src = 1

\* C4: every LEARNED relationship connects a User and a Knowledge node of
\* the store, and no two LEARNED relationships connect the same pair.
C4_LearnedLinks ==
    /\ \A e \in 1..Len(learned) :
          /\ learned[e].from \in 1..Len(users)
          /\ learned[e].to \in 1..Len(knowledge)
    /\ \A e, f \in 1..Len(learned) :
          (learned[e].from = learned[f].from /\ learned[e].to = learned[f].to) => e = f

\* C7: no two Knowledge nodes have the same name, subject and grade.
C7_KnowledgeUnique ==
    \A i, j \in 1..Len(knowledge) :
        (/\ knowledge[i].name = knowledge[j].name
         /\ knowledge[i].subject = knowledge[j].subject
         /\ knowledge[i].grade = knowledge[j].grade) => i = j

-----------------------------------------------------------------------------
(* Properties of the results of the bulk imports                            *)

BulkImportOps ==
    {"bulk_create_users", "import_users_optimized", "import_questions_optimized",
     "import_answers_optimized", "bulk_link_users_knowledge"}

\* C11: every result of a bulk import has success true exactly when the call
\* created at least one node or relationship in the store, and the created
\* count it reports is the number it created; so a call that rejects some
\* records and creates others succeeds and a call that rejects all of them
\* does not
C11_SuccessFlag ==
    [][result'.op \in BulkImportOps =>
         LET grown == (Len(users') - Len(users))
                      + (Len(graph'.questions) - Len(graph.questions))
                      + (Len(graph'.answers) - Len(graph.answers))
                      + (Len(learned') - Len(learned))
         IN /\ result'.success <=> grown > 0
            /\ Len(result'.created) = grown
            /\ "total_created" \in result'.keys => result'.total_created = grown]_vars

\* a user import rejected one record, created another and reported success
C11_Witness ==
    /\ result.op = "bulk_create_users"
    /\ result.outcome = "imported"
    /\ result.errors # <<>>
    /\ result.created # <<>>
    /\ result.success

\* the reasons of the result that are about the j-th input record
ReasonsFor(r, j) == {e \in 1..Len(r.errors) : r.errors[e].src = j - 1}

\* C12: in the result of a committed bulk import every input record is
\* either created or rejected, never both, every rejected record has exactly
\* one reason, and the rejected count is the input count less the created
\* count
C12_OneReasonPerRecord ==
    (result.op \in BulkImportOps /\ result.outcome = "imported") =>
        /\ \A j \in 1..Len(result.input) :
              Cardinality(ReasonsFor(result, j))
                  = (IF CreatedFrom(result, j) THEN 0 ELSE 1)
        /\ result.total_errors = result.total_processed - result.total_created

\* the list without its j-th element
Remove(a, j) == SubSeq(a, 1, j - 1) \o SubSeq(a, j + 1, Len(a))

\* the input records the call created, in the order of their creation
AcceptedRecords(r) == [c \in 1..Len(r.created) |-> r.input[r.created[c].src + 1]]

\* a user record with a missing field or a malformed email, or whose email
\* or id the store already holds
BadUser(rec, store) ==
    \/ ~PassesValidation(rec)
    \/ \E n \in 1..Len(store) :
          \/ store[n].email = Lower(Strip(rec.email))
          \/ HasId(rec) /\ store[n].id = Strip(rec.id)

\* C13: a user import during which no store operation fails returns its
\* lists, and every bad record of it is left out with a reason while the
\* records created are those the same call creates without the bad record
C13_PerRecordErrors ==
    [][(result'.op = "bulk_create_users" /\ ~result'.struck) =>
         /\ ReturnedLists(result')
         /\ \A j \in 1..Len(result'.input) :
               BadUser(result'.input[j], users) =>
                 /\ ~CreatedFrom(result', j)
                 /\ ReasonsFor(result', j) # {}
                 /\ AcceptedRecords(result')
                      = AcceptedRecords(bulk_create_users(users, Remove(result'.input, j),
                                            DefaultUserBatchSize, NoFault).result)]_vars

ConflictKinds == {"Email already exists", "ID already exists"}

\* C14: when a user import has committed, the same call made again on the
\* store it left (same records, same ids) creates nothing, leaves the store
\* unchanged and rejects as a conflict every record the first call created
C14_IdempotentReimport ==
    [][(result'.op = "bulk_create_users" /\ result'.outcome = "imported") =>
         LET again == bulk_create_users(users', result'.input,
                                        DefaultUserBatchSize, NoFault)
         IN /\ again.store = users'
            /\ again.result.outcome = "imported"
            /\ again.result.created = <<>>
            /\ \A j \in 1..Len(result'.input) :
                  CreatedFrom(result', j) =>
                    \E e \in ReasonsFor(again.result, j) :
                        again.result.errors[e].kind \in ConflictKinds]_vars

\* a user import of two records found in the store the two users that an
\* import of these records creates, created nothing and rejected both as
\* conflicts, one of them on its id
C14_Witness ==
    /\ result.op = "bulk_create_users"
    /\ result.outcome = "imported"
    /\ Len(result.input) = 2
    /\ result.created = <<>>
    /\ Len(users) = 2
    /\ \A j \in 1..2 :
          /\ users[j].email = Lower(Strip(result.input[j].email))
          /\ HasId(result.input[j]) => users[j].id = Strip(result.input[j].id)
          /\ \E e \in ReasonsFor(result, j) : result.errors[e].kind \in ConflictKinds
    /\ \E j \in 1..2 :
          \E e \in ReasonsFor(result, j) : result.errors[e].kind = "ID already exists"

\* C15: a user import or a question import that returns its lists, run with
\* any batch size, creates the records, gives the reasons and leaves the
\* store that the same call with batch size 1 creates, gives and leaves
C15_ChunkingTransparency ==
    [][/\ (result'.op = "bulk_create_users" /\ ReturnedLists(result')) =>
            LET one == bulk_create_users(users, result'.input, 1, NoFault)
            IN /\ one.store = users'
               /\ one.result.created = result'.created
               /\ one.result.errors = result'.errors
       /\ (result'.op = "import_questions_optimized" /\ ReturnedLists(result')) =>
            LET one == import_questions_optimized(graph, StoreIds(users, graph, knowledge),
                                                  result'.input, 1, NoFault)
            IN /\ one.store = graph'
               /\ one.result.created = result'.created
               /\ one.result.errors = result'.errors]_vars

\* a user import created two users with one write, so in one chunk
C15_Witness ==
    /\ result.op = "bulk_create_users"
    /\ result.outcome = "imported"
    /\ Len(result.created) = 2
    /\ result.writes = 1
    /\ Len(users) = 2

\* the email the import stores for a record
NormalEmail(rec) == Lower(Strip(rec.email))

\* C16: when two records of one committed batch collide on a key the store
\* does not hold yet (the normalised email of two valid user records, the
\* user and knowledge of two links), the later one is not created and gets a
\* reason, and the first one is not rejected on that key
C16_FirstWins ==
    [][/\ (result'.op \in BulkUserOps /\ result'.outcome = "imported") =>
            \A i, j \in 1..Len(result'.input) :
              LET a == result'.input[i]
                  b == result'.input[j]
              IN (/\ i < j
                  /\ PassesValidation(a) /\ PassesValidation(b)
                  /\ NormalEmail(a) = NormalEmail(b)
                  /\ \A n \in 1..Len(users) : users[n].email # NormalEmail(a))
                 => /\ ~CreatedFrom(result', j)
                    /\ ReasonsFor(result', j) # {}
                    /\ \A e \in ReasonsFor(result', i) :
                          result'.errors[e].kind # "Email already exists"
       /\ (result'.op = "bulk_link_users_knowledge" /\ result'.outcome = "imported") =>
            \A i, j \in 1..Len(result'.input) :
              LET a == result'.input[i]
                  b == result'.input[j]
              IN (/\ i < j
                  /\ a.user_id # ABSENT /\ a.knowledge_id # ABSENT
                  /\ a.user_id = b.user_id /\ a.knowledge_id = b.knowledge_id
                  /\ MatchLearned(users, knowledge, learned, a.user_id, a.knowledge_id) = {})
                 => /\ ~CreatedFrom(result', j)
                    /\ ReasonsFor(result', j) # {}]_vars

\* C17: a bulk import none of whose records passes validation returns a
\* failure with a reason for every record, having made no write and met no
\* store failure, and without having begun a transaction
C17_EmptyAfterValidation ==
    (result.op \in BulkImportOps /\ result.outcome = "no valid records") =>
        /\ ~result.success
        /\ "errors" \in result.keys
        /\ \A j \in 1..Len(result.input) : ReasonsFor(result, j) # {}
        /\ result.writes = 0
        /\ ~result.struck
        /\ ~result.began

\* C18: every reason in the result of a bulk import prints the position in
\* the input list of the record it is about
C18_ReasonsCarryIndex ==
    (result.op \in BulkImportOps /\ ReturnedLists(result)) =>
        \A e \in 1..Len(result.errors) : result.errors[e].index = result.errors[e].src

\* C19: the reasons in the result of a bulk import are in the order of the
\* input positions of the records they are about
C19_ReasonsInInputOrder ==
    (result.op \in BulkImportOps /\ ReturnedLists(result)) =>
        \A e, f \in 1..Len(result.errors) :
            e < f => result.errors[e].src <= result.errors[f].src

\* the list with its i-th and j-th elements exchanged
Swap(a, i, j) ==
    [k \in 1..Len(a) |-> IF k = i THEN a[j] ELSE IF k = j THEN a[i] ELSE a[k]]

\* how many records equal to rec the call created
AcceptedCount(r, rec) ==
    Cardinality({c \in 1..Len(r.created) : r.input[r.created[c].src + 1] = rec})

\* the two calls accepted the same records of the first call's list
SameAcceptance(r1, r2) ==
    \A rec \in SeqToSet(r1.input) : AcceptedCount(r1, rec) = AcceptedCount(r2, rec)

\* two valid records of the list have the same id once stripped, or the
\* same email once normalised
CollidesInBatch(a) ==
    \E i, j \in 1..Len(a) :
        /\ i < j
        /\ PassesValidation(a[i]) /\ PassesValidation(a[j])
        /\ \/ HasId(a[i]) /\ HasId(a[j]) /\ Strip(a[i].id) = Strip(a[j].id)
           \/ NormalEmail(a[i]) = NormalEmail(a[j])

-----------------------------------------------------------------------------
(* Properties of the transaction of a call                                  *)

\* C21: a user import that is interrupted after its transaction began and
\* before the commit, by an exception its handler does not catch, leaves
\* the store as it was before the call
C21_Cancellation ==
    [][(result'.op = "bulk_create_users" /\ result'.outcome = "interrupted")
          => users' = users]_vars

\* a user import was interrupted after it had written a chunk, on a store
\* that is not empty
C21_Witness ==
    /\ result.op = "bulk_create_users"
    /\ result.outcome = "interrupted"
    /\ result.writes >= 1
    /\ users # <<>>

\* the emails of the users that the call of p has committed
CommittedEmails(p) ==
    IF calls.proc[p].pc = "committed"
    THEN {calls.proc[p].final[n].email : n \in 1..Len(calls.proc[p].final)}
    ELSE {}

\* two calls in flight have both committed a user with the same email
BothCommitted ==
    \E p, q \in Procs : p # q /\ CommittedEmails(p) \cap CommittedEmails(q) # {}

\* C22: two bulk user imports that ran side by side have both committed a
\* User with the same email only on a store whose reads see committed data
\* without serialising the transactions; on a store that runs one
\* transaction at a time at most one of them created it
C22_ConcurrentImports ==
    BothCommitted => calls.isolation = "read committed"

\* the interleaving: both calls passed their check and both committed a
\* User with the same email, which the store now holds twice
C22_Witness ==
    /\ calls.isolation = "read committed"
    /\ BothCommitted
    /\ Len(users) = 2
    /\ users[1].email = users[2].email

-----------------------------------------------------------------------------
(* Properties of the links and of their updates                             *)

\* the positions of the links that a step changed
ChangedLinks ==
    {e \in 1..Len(learned) : e <= Len(learned') /\ learned'[e] # learned[e]}

\* a link differs from what it was in progress, status and updatedAt only
SameButProgress(old, new) ==
    new = [old EXCEPT !.progress = new.progress, !.status = new.status,
                      !.updatedAt = new.updatedAt]

\* s is the beginning of t
IsPrefix(s, t) ==
    Len(s) <= Len(t) /\ \A n \in 1..Len(s) : t[n] = s[n]

\* C23: a progress update changes at most the progress, the status and the
\* updated timestamp of one link, and leaves every other link and every
\* node as they were; the operations that create records leave the records
\* that exist as they are
C23_UpdateFrame ==
    [][/\ (result'.op = "update_user_knowledge_progress") =>
             /\ UNCHANGED <<users, graph, knowledge>>
             /\ Len(learned') = Len(learned)
             /\ \A e \in ChangedLinks : SameButProgress(learned[e], learned'[e])
             /\ Cardinality(ChangedLinks) <= 1
       /\ (result'.op \in {"create_knowledge", "link_user_knowledge",
                           "bulk_link_users_knowledge"}) =>
             /\ UNCHANGED <<users, graph>>
             /\ IsPrefix(knowledge, knowledge')
             /\ IsPrefix(learned, learned')]_vars

\* C24: every LEARNED link of the store has a progress from 0 to 100,
\* whatever integers the single link, the bulk link and the progress update
\* were given
C24_ProgressRange ==
    \A e \in 1..Len(learned) :
        learned[e].progress \in Int /\ learned[e].progress >= 0 /\ learned[e].progress <= 100

\* the store holds a link whose progress was brought up to 0 and a link
\* whose progress was brought down to 100, the latter by an update
C24_Witness ==
    /\ result.op = "update_user_knowledge_progress"
    /\ result.outcome = "updated"
    /\ \E e, f \in 1..Len(learned) :
          learned[e].progress = 0 /\ learned[f].progress = 100
                                 /\ learned[f].updatedAt = AtUpdate

\* the states of a call that has ended
TerminalPcs == {"committed", "rolled back"}

\* the place of a state of a call in the order validating, resolving
\* foreign keys, checking uniqueness, inserting, committed or rolled back
PhaseRank(pc) ==
    CASE pc = "idle" -> 0
      [] pc = "validating" -> 1
      [] pc = "resolving" -> 2
      [] pc = "checking" -> 3
      [] pc = "inserting" -> 4
      [] pc \in TerminalPcs -> 5

\* the validation and read steps of a call: only the bulk link has
\* foreign keys to resolve
ReadSteps(op) ==
    IF op = "bulk_link_users_knowledge"
    THEN {"validating", "resolving", "checking"}
    ELSE {"validating", "checking"}

\* C25: a call moves forward only in the order validating, resolving
\* foreign keys, checking uniqueness, inserting; it is inserting, and has
\* written, only after all its validation and read steps; the store changes
\* only when a call that was inserting commits; a call that has ended stays
\* as it ended; and every call that opened its transaction ends committed
\* or rolled back
C25_PhaseOrder ==
    /\ [][\A p \in Procs :
            LET c == calls.proc[p]
                d == calls'.proc[p]
            IN /\ d.pc # c.pc => PhaseRank(d.pc) > PhaseRank(c.pc)
               /\ d.pc = "inserting" => ReadSteps(d.op) \subseteq d.done
               /\ d.written > 0 => d.pc \in {"inserting"} \cup TerminalPcs
               /\ d.written > c.written => c.pc = "inserting"
               /\ c.pc \in TerminalPcs => d = c]_vars
    /\ [][(users' # users \/ learned' # learned) =>
            \E p \in Procs : /\ calls.proc[p].pc = "inserting"
                              /\ calls'.proc[p].pc = "committed"]_vars
    /\ \A p \in Procs :
          (calls.proc[p].pc \in OpenPcs) ~> (calls.proc[p].pc \in TerminalPcs)

\* a bulk link went through its four parts, wrote and committed, and a user
\* import was rolled back
C25_Witness ==
    \E p, q \in Procs :
        /\ calls.proc[p].op = "bulk_link_users_knowledge"
        /\ calls.proc[p].pc = "committed"
        /\ calls.proc[p].written > 0
        /\ calls.proc[p].done = {"validating", "resolving", "checking", "inserting"}
        /\ learned # <<>>
        /\ calls.proc[q].op = "bulk_create_users"
        /\ calls.proc[q].pc = "rolled back"

-----------------------------------------------------------------------------
(* Properties of the chunks of a bulk import                                *)

\* the chunks of a call, one after the other
RECURSIVE Flatten(_)
Flatten(chunks) ==
    IF chunks = <<>> THEN <<>> ELSE Head(chunks) \o Flatten(Tail(chunks))

\* the inserts of one chunk of a kind: the entities (for the bulk link, the
\* links) and one per relationship type of the kind
InsertsPerChunk(op) ==
    CASE op \in {"bulk_create_users", "import_users_optimized"} -> 1
      [] op = "import_questions_optimized" -> 2
      [] op = "import_answers_optimized" -> 3
      [] op = "bulk_link_users_knowledge" -> 1

\* the chunks of a result are consecutive pieces of the surviving records,
\* which are in input order, none empty and none above the batch size, and
\* the call issued the inserts of its kind for each chunk
ChunkStructure(r) ==
    /\ Flatten(r.chunks) = r.created
    /\ \A m, n \in 1..Len(r.created) : m < n => r.created[m].src < r.created[n].src
    /\ \A n \in 1..Len(r.chunks) :
          r.chunks[n] # <<>> /\ Len(r.chunks[n]) <= r.batch_size
    /\ r.writes = Len(r.chunks) * InsertsPerChunk(r.op)

\* C26: for every kind (User, Question, Answer, LEARNED link) the surviving
\* records are written in consecutive chunks in input order, each of at
\* most batchSize records, every surviving record in one chunk, each chunk
\* with one insert of the entities and one per relationship type
C26_ChunkStructure ==
    (result.outcome = "imported" /\ result.op \in BulkImportOps)
        => ChunkStructure(result)

\* the same for the three kinds whose import has a chunk loop
C26_ChunkStructureOfNodes ==
    (result.outcome = "imported"
        /\ result.op \in BulkImportOps \ {"bulk_link_users_knowledge"})
        => ChunkStructure(result)

-----------------------------------------------------------------------------
(* Properties of the tests                                                  *)

\* the nodes that a step added to a sequence of nodes
Added(before, after) == (Len(before) + 1)..Len(after)

\* the relationships of a type between two nodes
RelsBetween(g, type, a, b) == RelsFrom(g, type, a) \cap RelsTo(g, type, b)

\* the step added one scored Test with a TOOK edge, and for each of the n
\* input questions a Question that the Test contains and a TestAnswer that
\* the Question has, and left the rest of the graph as it was
TestCreated(n) ==
    /\ graph'.lessons = graph.lessons /\ graph'.answers = graph.answers
    /\ IsPrefix(graph.tests, graph'.tests)
    /\ IsPrefix(graph.questions, graph'.questions)
    /\ IsPrefix(graph.test_answers, graph'.test_answers)
    /\ IsPrefix(graph.rels, graph'.rels)
    /\ Len(graph'.tests) = Len(graph.tests) + 1
    /\ Len(graph'.questions) = Len(graph.questions) + n
    /\ Len(graph'.test_answers) = Len(graph.test_answers) + n
    /\ LET t == Len(graph'.tests) IN
          /\ graph'.tests[t].scored
          /\ RelsTo(graph', "TOOK", t) # {}
          /\ \A q \in Added(graph.questions, graph'.questions) :
                /\ Cardinality(RelsBetween(graph', "CONTAINS_QUESTION", t, q)) = 1
                /\ Cardinality(RelsFrom(graph', "HAS_ANSWER", q)) = 1
          /\ \A a \in Added(graph.test_answers, graph'.test_answers) :
                /\ Cardinality(RelsTo(graph', "HAS_ANSWER", a)) = 1
                /\ \A e \in RelsTo(graph', "HAS_ANSWER", a) :
                      graph'.rels[e].from \in Added(graph.questions, graph'.questions)

\* C27: a call of create_complete_test either returns success and has added
\* the Test with its TOOK edge, its scores set, and a Question and a
\* TestAnswer with their edges for each input question, or returns no
\* success and has left the store as it was
C27_CompleteTestAllOrNothing ==
    [][(result'.op = "create_complete_test") =>
          /\ UNCHANGED <<users, knowledge, learned>>
          /\ IF result'.success
             THEN result'.input # <<>> /\ TestCreated(Len(result'.input))
             ELSE graph' = graph]_vars

\* a call failed after it had created the test, its TOOK edge and a
\* question, and the store holds no test
C27_Witness ==
    /\ result.op = "create_complete_test"
    /\ result.outcome = "transaction failed"
    /\ result.writes >= 3
    /\ graph.tests = <<>>
    /\ graph.questions = <<>>

\* the questions of the tests with an id, and the answers of these questions
QuestionsOfTest(g, test_id) ==
    {q \in 1..Len(g.questions) :
        \E t \in Match(g.tests, test_id) : RelsBetween(g, "CONTAINS_QUESTION", t, q) # {}}

AnswersOfTest(g, test_id) ==
    {a \in 1..Len(g.test_answers) :
        \E q \in QuestionsOfTest(g, test_id) : RelsBetween(g, "HAS_ANSWER", q, a) # {}}

\* C28: a delete_test that returns success leaves no Test with that id and
\* none of the Questions and TestAnswers it had; a delete_test of an id that
\* no Test has returns 'Test not found' and leaves the store as it was
C28_DeleteTest ==
    [][(result'.op = "delete_test") =>
          LET test_id == result'.input[1] IN
          /\ UNCHANGED <<users, knowledge, learned>>
          /\ result'.success <=> Match(graph.tests, test_id) # {}
          /\ IF result'.success
             THEN /\ Match(graph'.tests, test_id) = {}
                  /\ \A q \in QuestionsOfTest(graph, test_id) :
                        graph.questions[q].id \notin IdsOf(graph'.questions)
                  /\ \A a \in AnswersOfTest(graph, test_id) :
                        graph.test_answers[a].id \notin IdsOf(graph'.test_answers)
                  /\ Len(graph'.questions)
                        = Len(graph.questions) - Cardinality(QuestionsOfTest(graph, test_id))
             ELSE /\ result'.outcome = "Test not found"
                  /\ graph' = graph]_vars

\* a test was deleted: the store holds no test, no question and no answer
\* of a test
C28_Witness ==
    /\ result.op = "delete_test"
    /\ result.success
    /\ graph.tests = <<>>
    /\ graph.questions = <<>>
    /\ graph.test_answers = <<>>
    /\ graph.rels = <<>>

-----------------------------------------------------------------------------
(* Properties of the reported chunk count                                   *)

\* C29: the batches_processed that a bulk question or bulk answer import
\* returns is the number of chunks the call wrote
C29_BatchesProcessed ==
    (result.outcome = "imported"
        /\ result.op \in {"import_questions_optimized", "import_answers_optimized"})
        => result.batches_processed = Len(result.chunks)

====
